---- MODULE Spec2Model ----
(***************************************************************************)
(* A model of the distributed rate-limiting service: the two admission    *)
(* algorithms (token bucket, sliding-window log) executed as atomic Lua   *)
(* scripts by a shared Redis store, the Go clients that read their own    *)
(* clock, call the store and interpret its reply, the fail-open error     *)
(* classification and the process-wide counters.                          *)
(*                                                                         *)
(* Time is one wall clock in milliseconds.  Token counts are Lua floats   *)
(* in the code; here they are exact rationals, kept as integers in units  *)
(* of 1/TokenOne token (refill rates are multiples of 1/RateDen tokens    *)
(* per second), so floating-point rounding is outside the model.          *)
(***************************************************************************)
EXTENDS Integers, Sequences, FiniteSets, Bags, TLC

VARIABLES
    clock,        \* wall clock, milliseconds
    db,           \* the Redis keyspace: redis key name -> value
    inflight,     \* the bag of checks between their clock reading and their return
    hist,         \* per rate-limit key: the script executions, in store order
    allowedCnt,   \* metrics.RequestsAllowed, by algorithm
    blockedCnt,   \* metrics.RequestsBlocked, by algorithm
    redisErrors,  \* metrics.RedisErrors
    ret,          \* the outcome of the check that returned last
    issued,       \* number of checks started so far
    redis,        \* main's *Client: "connected", or "nil" when NewClient failed
    store,        \* the Redis server: "up", or "down" when it cannot be reached
    probe         \* a call of contains(s, substr): its arguments, position and result

vars == <<clock, db, inflight, hist, allowedCnt, blockedCnt, redisErrors, ret, issued,
          redis, store, probe>>

----------------------------------------------------------------------------
(* Bounds of the model *)

MaxInFlight == 3      \* checks in flight at once
MaxChecks == 3        \* checks started in one behaviour of StoreSpec
MaxClock == 2000      \* last clock value of StoreSpec, milliseconds
MaxFaultChecks == 2   \* checks started in one behaviour of Spec
MaxFaultClock == 500  \* last clock value of Spec, milliseconds
RateDen == 2          \* refill rates are multiples of 1/RateDen tokens per second

(* Program constants *)

MsPerSecond == 1000
RedisTimeout == 2        \* cfg.RedisTimeout, milliseconds (the default)
CleanupBuffer == 10
TtlFactor == 2

TokenOne == MsPerSecond * RateDen

AlgorithmTokenBucket == "token_bucket"
AlgorithmSlidingWindow == "sliding_window"
Algorithms == {AlgorithmTokenBucket, AlgorithmSlidingWindow}

(* "a:counter" is the name the sliding-window script derives for the       *)
(* sequence counter of key "a".                                            *)
CounterSuffix == ":counter"
Keys == {"a", "a:counter"}
TickSteps == {500}                  \* how far the clock moves in one step

CounterKey(key) == key \o CounterSuffix
RKeys == Keys \cup {CounterKey(k) : k \in Keys}

Min(a, b) == IF a < b THEN a ELSE b
Max(a, b) == IF a > b THEN a ELSE b
CeilDiv(a, b) == (a + b - 1) \div b

----------------------------------------------------------------------------
(* utils: the client's clock readings *)

NowMillis(clk) == clk
NowSeconds(clk) == clk \div MsPerSecond

----------------------------------------------------------------------------
(* The Redis keyspace.  A value is a hash (token bucket), a sorted set     *)
(* (sliding-window log) or a string (sequence counter); exp is the time at *)
(* which the key expires, -1 when it has no expiry.                        *)

NoValue ==
    [type |-> "none", tokens |-> 0, last_refill |-> 0, members |-> {}, val |-> 0, exp |-> -1]

HashValue(tokens, last_refill, exp) ==
    [type |-> "hash", tokens |-> tokens, last_refill |-> last_refill,
     members |-> {}, val |-> 0, exp |-> exp]

ZSetValue(members, exp) ==
    IF members = {} THEN NoValue
    ELSE [type |-> "zset", tokens |-> 0, last_refill |-> 0,
          members |-> members, val |-> 0, exp |-> exp]

StringValue(val, exp) ==
    [type |-> "string", tokens |-> 0, last_refill |-> 0,
     members |-> {}, val |-> val, exp |-> exp]

ExpireOmitted(v, clk, ttl) == v

(* EXPIRE key ttl: a key that exists gets a new expiry, a missing key none *)
Expire(v, clk, ttl) ==
    IF v.type = "none" THEN v ELSE [v EXCEPT !.exp = clk + ttl * MsPerSecond]

(* What is left of the keyspace at time clk: expired keys are gone *)
Reclaim(d, clk) ==
    [k \in RKeys |-> IF d[k].exp >= 0 /\ clk > d[k].exp THEN NoValue ELSE d[k]]

(* The reply of a script: a two-element table of integers, or an error *)
ScriptReply(allowed, remaining) ==
    [ok |-> TRUE, allowed |-> allowed, remaining |-> remaining]
ScriptError ==
    [ok |-> FALSE, allowed |-> 0, remaining |-> 0]

----------------------------------------------------------------------------
(* token_bucket.lua *)

RefillBackwards(tokens, capacity, refill_rate, now, last_refill) ==
    LET elapsed_ms == last_refill - now
        tokens_to_add == elapsed_ms * refill_rate
    IN  Min(capacity * TokenOne, tokens + tokens_to_add)

(* tokens after the refill for the elapsed time, capped at capacity *)
Refill(tokens, capacity, refill_rate, now, last_refill) ==
    LET elapsed_ms == now - last_refill
        tokens_to_add == elapsed_ms * refill_rate   \* (ms / 1000) * (rate / RateDen) tokens
    IN  Min(capacity * TokenOne, tokens + tokens_to_add)

TokenBucketTtlFloor(capacity, refill_rate) ==
    (capacity * RateDen * TtlFactor) \div refill_rate

(* ceil(capacity / refill_rate * 2) seconds *)
TokenBucketTtl(capacity, refill_rate) ==
    CeilDiv(capacity * RateDen * TtlFactor, refill_rate)

HasTokenAnyFraction(tokens) == tokens > 0

(* tokens >= 1: the request can take a token *)
HasToken(tokens) == tokens >= TokenOne

ConsumeAlways(tokens, allowed) == tokens - TokenOne

(* the tokens left by the decision: one less when the request is allowed *)
Consume(tokens, allowed) ==
    IF allowed = 1 THEN tokens - TokenOne ELSE tokens

TokenBucketScript(d, key, capacity, refill_rate, now, clk) ==
    IF d[key].type \notin {"none", "hash"}
    THEN [db |-> d, reply |-> ScriptError]          \* HMGET: WRONGTYPE
    ELSE
    LET absent == d[key].type = "none"
        tokens0 == IF absent THEN capacity * TokenOne ELSE d[key].tokens
        last0 == IF absent THEN now ELSE d[key].last_refill
        tokens1 == Refill(tokens0, capacity, refill_rate, now, last0)
        allowed == IF HasToken(tokens1) THEN 1 ELSE 0
        tokens2 == Consume(tokens1, allowed)
        ttl == TokenBucketTtl(capacity, refill_rate)
        stored == HashValue(tokens2, now, d[key].exp)
    IN  [db |-> [d EXCEPT ![key] = Expire(stored, clk, ttl)],
         reply |-> ScriptReply(allowed, tokens2 \div TokenOne)]

----------------------------------------------------------------------------
(* sliding_window.lua *)

RemoveExpiredExclusive(members, window_start) ==
    {e \in members : ~(0 <= e.score /\ e.score < window_start)}

(* ZREMRANGEBYSCORE key 0 window_start *)
RemoveExpired(members, window_start) ==
    {e \in members : ~(0 <= e.score /\ e.score <= window_start)}

ZAddByScore(members, score, member) ==
    {e \in members : e.score # score} \cup {[score |-> score, member |-> member]}

(* ZADD key score member: a member already present only gets the new score *)
ZAdd(members, score, member) ==
    {e \in members : e.member # member} \cup {[score |-> score, member |-> member]}

SlidingWindowTtl(window) == window + CleanupBuffer

MemberTimestampOnly(now, seq) == <<now, 0>>

(* now .. ':' .. seq, the member of the entry of an admitted request *)
Member(now, seq) == <<now, seq>>

SlidingWindowScript(d, key, capacity, window, now, clk) ==
    IF d[key].type \notin {"none", "zset"}
    THEN [db |-> d, reply |-> ScriptError]          \* ZREMRANGEBYSCORE: WRONGTYPE
    ELSE
    LET ckey == CounterKey(key)
        window_start == now - window
        kept == RemoveExpired(d[key].members, window_start)
        d1 == [d EXCEPT ![key] = ZSetValue(kept, d[key].exp)]
        current_count == Cardinality(kept)
        remaining == capacity - current_count
        ttl == SlidingWindowTtl(window)
    IN  IF current_count < capacity
        THEN IF d1[ckey].type \notin {"none", "string"}
             THEN [db |-> d1, reply |-> ScriptError]   \* INCR: WRONGTYPE, after the purge
             ELSE
             LET seq == d1[ckey].val + 1
                 member == Member(now, seq)
                 d2 == [d1 EXCEPT ![ckey] = StringValue(seq, d1[ckey].exp)]
                 d3 == [d2 EXCEPT ![key] = ZSetValue(ZAdd(kept, now, member), d2[key].exp)]
                 d4 == [d3 EXCEPT ![key] = Expire(d3[key], clk, ttl)]
                 d5 == [d4 EXCEPT ![ckey] = Expire(d4[ckey], clk, ttl)]
             IN  [db |-> d5, reply |-> ScriptReply(1, Max(0, remaining - 1))]
        ELSE
             LET d4 == [d1 EXCEPT ![key] = Expire(d1[key], clk, ttl)]
                 d5 == [d4 EXCEPT ![ckey] = Expire(d4[ckey], clk, ttl)]
             IN  [db |-> d5, reply |-> ScriptReply(0, Max(0, remaining))]

----------------------------------------------------------------------------
(* sliding_window.go: the scripts inlined as Go string literals, which are  *)
(* what loadTokenBucketScript and loadSlidingWindowScript keep when none    *)
(* of the script file's paths can be read.                                  *)

InlineMsPerSecond == 1000
InlineCleanupBuffer == 10
InlineTtlFactor == 2

(* one token, in the unit of the stored token count *)
InlineTokenOne == InlineMsPerSecond * RateDen

(* math.ceil(capacity / refill_rate * 2) *)
InlineTokenBucketTtl(capacity, refill_rate) ==
    CeilDiv(capacity * RateDen * InlineTtlFactor, refill_rate)

InlineTokenBucketScript(d, key, capacity, refill_rate, now, clk) ==
    IF d[key].type \notin {"none", "hash"}
    THEN [db |-> d, reply |-> ScriptError]          \* HMGET: WRONGTYPE
    ELSE
    LET isnil == d[key].type = "none"                \* tokens == nil
        tokens0 == IF isnil THEN capacity * InlineTokenOne ELSE d[key].tokens
        last_refill0 == IF isnil THEN now ELSE d[key].last_refill
        tokens_to_add == (now - last_refill0) * refill_rate
        tokens1 == Min(capacity * InlineTokenOne, tokens0 + tokens_to_add)
        last_refill == now
        allowed == IF tokens1 >= InlineTokenOne THEN 1 ELSE 0
        tokens == IF tokens1 >= InlineTokenOne THEN tokens1 - InlineTokenOne ELSE tokens1
        ttl == InlineTokenBucketTtl(capacity, refill_rate)
        hmset == HashValue(tokens, last_refill, d[key].exp)
    IN  [db |-> [d EXCEPT ![key] = Expire(hmset, clk, ttl)],
         reply |-> ScriptReply(allowed, tokens \div InlineTokenOne)]

InlineSlidingWindowTtlNoBuffer(window) == window

(* window + 10 *)
InlineSlidingWindowTtl(window) == window + InlineCleanupBuffer

InlineSlidingWindowScript(d, key, capacity, window, now, clk) ==
    IF d[key].type \notin {"none", "zset"}
    THEN [db |-> d, reply |-> ScriptError]          \* ZREMRANGEBYSCORE: WRONGTYPE
    ELSE
    LET counter == key \o ":counter"
        window_start == now - window
        zrem == [d EXCEPT ![key] =
                    ZSetValue(RemoveExpired(d[key].members, window_start), d[key].exp)]
        current_count == Cardinality(zrem[key].members)
        remaining == capacity - current_count
        admit == current_count < capacity
        incr == [zrem EXCEPT ![counter] = StringValue(zrem[counter].val + 1, zrem[counter].exp)]
        member == <<now, incr[counter].val>>
        zadd == [incr EXCEPT ![key] =
                    ZSetValue(ZAdd(zrem[key].members, now, member), incr[key].exp)]
        written == IF admit THEN zadd ELSE zrem
        expire1 == [written EXCEPT ![key] =
                       Expire(written[key], clk, InlineSlidingWindowTtl(window))]
        expire2 == [expire1 EXCEPT ![counter] =
                       Expire(expire1[counter], clk, InlineSlidingWindowTtl(window))]
    IN  IF admit /\ zrem[counter].type \notin {"none", "string"}
        THEN [db |-> zrem, reply |-> ScriptError]    \* INCR: WRONGTYPE, after the purge
        ELSE [db |-> expire2,
              reply |-> ScriptReply(IF admit THEN 1 ELSE 0,
                                    Max(0, IF admit THEN remaining - 1 ELSE remaining))]

----------------------------------------------------------------------------

(* Lua numbers.  A Lua number is an IEEE-754 double: every arithmetic       *)
(* result is rounded to a 53-bit mantissa, to nearest, ties to even.  A     *)
(* non-negative double is [m, e], the value m * 2^e with m a natural        *)
(* number of exactly MantissaBits bits (or zero); naturals of that size are *)
(* sequences of limbs, least significant first.  The values of the model    *)
(* are far from the overflow and subnormal ranges.                          *)

MantissaBits == 53
LimbBits == 14
LimbBase == 2 ^ LimbBits

RECURSIVE BNorm(_)
BNorm(a) ==
    IF a = <<>> THEN a
    ELSE IF a[Len(a)] = 0 THEN BNorm(SubSeq(a, 1, Len(a) - 1))
    ELSE a

RECURSIVE BFromInt(_)
BFromInt(n) ==
    IF n = 0 THEN <<>> ELSE <<n % LimbBase>> \o BFromInt(n \div LimbBase)

RECURSIVE BToInt(_)
BToInt(a) ==
    IF a = <<>> THEN 0 ELSE a[1] + (LimbBase * BToInt(Tail(a)))

Limb(a, i) == IF 1 <= i /\ i <= Len(a) THEN a[i] ELSE 0

RECURSIVE BAddFrom(_, _, _, _)
BAddFrom(a, b, i, carry) ==
    IF i > Max(Len(a), Len(b))
    THEN IF carry = 0 THEN <<>> ELSE <<carry>>
    ELSE LET s == Limb(a, i) + Limb(b, i) + carry
         IN  <<s % LimbBase>> \o BAddFrom(a, b, i + 1, s \div LimbBase)

BAdd(a, b) == BAddFrom(a, b, 1, 0)

RECURSIVE BSubFrom(_, _, _, _)
BSubFrom(a, b, i, borrow) ==
    IF i > Len(a) THEN <<>>
    ELSE LET s == Limb(a, i) - Limb(b, i) - borrow
         IN  IF s < 0 THEN <<s + LimbBase>> \o BSubFrom(a, b, i + 1, 1)
             ELSE <<s>> \o BSubFrom(a, b, i + 1, 0)

(* a - b for a >= b *)
BSub(a, b) == BNorm(BSubFrom(a, b, 1, 0))

RECURSIVE BCmpFrom(_, _, _)
BCmpFrom(a, b, i) ==
    IF i = 0 THEN 0
    ELSE IF a[i] > b[i] THEN 1
    ELSE IF a[i] < b[i] THEN -1
    ELSE BCmpFrom(a, b, i - 1)

(* -1, 0 or 1 as a < b, a = b or a > b *)
BCmp(a, b) ==
    IF Len(a) > Len(b) THEN 1
    ELSE IF Len(a) < Len(b) THEN -1
    ELSE BCmpFrom(a, b, Len(a))

RECURSIVE ColumnSum(_, _, _, _)
ColumnSum(a, b, k, i) ==
    IF i > Len(a) THEN 0
    ELSE (Limb(a, i) * Limb(b, k + 1 - i)) + ColumnSum(a, b, k, i + 1)

RECURSIVE BMulFrom(_, _, _, _)
BMulFrom(a, b, k, carry) ==
    IF k > Len(a) + Len(b) THEN <<>>
    ELSE LET s == ColumnSum(a, b, k, 1) + carry
         IN  <<s % LimbBase>> \o BMulFrom(a, b, k + 1, s \div LimbBase)

(* a * b, for factors of at most four limbs *)
BMul(a, b) == BNorm(BMulFrom(a, b, 1, 0))

RECURSIVE IntBitLen(_)
IntBitLen(n) == IF n = 0 THEN 0 ELSE 1 + IntBitLen(n \div 2)

BBitLen(a) ==
    IF a = <<>> THEN 0 ELSE (LimbBits * (Len(a) - 1)) + IntBitLen(a[Len(a)])

(* a * 2^s *)
BShl(a, s) ==
    LET q == s \div LimbBits
        r == s % LimbBits
        n == Len(a) + 1
        shifted == [j \in 1..n |->
                       ((Limb(a, j) * (2 ^ r)) % LimbBase)
                         + (Limb(a, j - 1) \div (2 ^ (LimbBits - r)))]
    IN  IF a = <<>> THEN a
        ELSE BNorm([j \in 1..q |-> 0] \o shifted)

(* floor(a / 2^s) *)
BShr(a, s) ==
    LET q == s \div LimbBits
        r == s % LimbBits
        n == Len(a) - q
    IN  IF n <= 0 THEN <<>>
        ELSE BNorm([j \in 1..n |->
                       (Limb(a, j + q) \div (2 ^ r))
                         + ((Limb(a, j + q + 1) % (2 ^ r)) * (2 ^ (LimbBits - r)))])

BBit(a, i) == (Limb(a, (i \div LimbBits) + 1) \div (2 ^ (i % LimbBits))) % 2

BIsOdd(a) == a # <<>> /\ a[1] % 2 = 1

(* binary long division of a by b # 0.  DivModBit: from the quotient and   *)
(* remainder d of floor(a / 2^(i+1)) to those of floor(a / 2^i)            *)
DivModBit(a, b, d, i) ==
    LET r2 == BAdd(BAdd(d.r, d.r), BFromInt(BBit(a, i)))
        q2 == BAdd(d.q, d.q)
    IN  IF BCmp(r2, b) >= 0
        THEN [q |-> BAdd(q2, <<1>>), r |-> BSub(r2, b)]
        ELSE [q |-> q2, r |-> r2]

(* from d, for floor(a / 2^(i+1)), down to bit lo; the remainder of a      *)
(* division by b is below b                                                *)
RECURSIVE DivModBits(_, _, _, _, _)
DivModBits(a, b, d, lo, i) ==
    IF i < lo \/ BCmp(d.r, b) >= 0 THEN d
    ELSE DivModBits(a, b, DivModBit(a, b, d, i), lo, i - 1)

(* from d, for a without its limbs up to l, limb by limb down to limb 1 *)
RECURSIVE BDivModFrom(_, _, _, _)
BDivModFrom(a, b, l, d) ==
    IF l < 1 \/ BCmp(d.r, b) >= 0 THEN d
    ELSE BDivModFrom(a, b, l - 1,
                     DivModBits(a, b, d, LimbBits * (l - 1), (LimbBits * l) - 1))

(* long division of the limbs l down to 1 of a by a one-limb number n,     *)
(* with the remainder r of the limbs above l                               *)
RECURSIVE BDivSmallFrom(_, _, _, _)
BDivSmallFrom(a, n, l, r) ==
    IF l < 1 THEN [q |-> <<>>, r |-> BFromInt(r)]
    ELSE LET cur == (r * LimbBase) + a[l]
             rest == BDivSmallFrom(a, n, l - 1, cur % n)
         IN  [q |-> Append(rest.q, cur \div n), r |-> rest.r]

(* quotient and remainder of a by b # 0 *)
BDivMod(a, b) ==
    IF Len(b) = 1
    THEN LET d == BDivSmallFrom(a, b[1], Len(a), 0) IN [q |-> BNorm(d.q), r |-> d.r]
    ELSE BDivModFrom(a, b, Len(a), [q |-> <<>>, r |-> <<>>])

RECURSIVE LowZeroLimbs(_)
LowZeroLimbs(a) ==
    IF a = <<>> \/ a[1] # 0 THEN 0 ELSE 1 + LowZeroLimbs(Tail(a))

FZero == [m |-> <<>>, e |-> 0]

(* the double nearest to m * 2^e, ties to even *)
FRound(m, e) ==
    LET n == BBitLen(m)
    IN  IF n = 0 THEN FZero
        ELSE IF n <= MantissaBits
        THEN [m |-> BShl(m, MantissaBits - n), e |-> e - (MantissaBits - n)]
        ELSE LET s == n - MantissaBits
                 q == BShr(m, s)
                 rem == BSub(m, BShl(q, s))
                 half == BShl(<<1>>, s - 1)
                 c == BCmp(rem, half)
                 q1 == IF c > 0 \/ (c = 0 /\ BIsOdd(q)) THEN BAdd(q, <<1>>) ELSE q
             IN  IF BBitLen(q1) > MantissaBits
                 THEN [m |-> BShr(q1, 1), e |-> e + s + 1]
                 ELSE [m |-> q1, e |-> e + s]

FFromInt(n) == FRound(BFromInt(n), 0)

FIsZero(x) == x.m = <<>>

(* x + y *)
FAdd(x, y) ==
    IF FIsZero(x) THEN y
    ELSE IF FIsZero(y) THEN x
    ELSE LET e == Min(x.e, y.e)
         IN  FRound(BAdd(BShl(x.m, x.e - e), BShl(y.m, y.e - e)), e)

(* -1, 0 or 1 as x < y, x = y or x > y *)
FCmp(x, y) ==
    IF FIsZero(x) THEN (IF FIsZero(y) THEN 0 ELSE -1)
    ELSE IF FIsZero(y) THEN 1
    ELSE LET e == Min(x.e, y.e)
         IN  BCmp(BShl(x.m, x.e - e), BShl(y.m, y.e - e))

(* x - y for x >= y *)
FSub(x, y) ==
    IF FIsZero(y) THEN x
    ELSE LET e == Min(x.e, y.e)
         IN  FRound(BSub(BShl(x.m, x.e - e), BShl(y.m, y.e - e)), e)

(* x * y *)
FMul(x, y) ==
    IF FIsZero(x) \/ FIsZero(y) THEN FZero
    ELSE FRound(BMul(x.m, y.m), x.e + y.e)

(* x / y for y # 0: the quotient of the mantissas (the divisor's without    *)
(* its low zero limbs) to MantissaBits + 7 or more bits, with one more bit  *)
(* set when the division left a remainder                                   *)
FDiv(x, y) ==
    IF FIsZero(x) THEN FZero
    ELSE LET k == MantissaBits + 7
             z == LowZeroLimbs(y.m)
             d == BDivMod(BShl(x.m, k), SubSeq(y.m, z + 1, Len(y.m)))
             sticky == IF d.r = <<>> THEN <<>> ELSE <<1>>
         IN  FRound(BAdd(BAdd(d.q, d.q), sticky), x.e - y.e - (LimbBits * z) - k - 1)

FMin(x, y) == IF FCmp(y, x) < 0 THEN y ELSE x

(* math.floor(x) *)
FFloor(x) ==
    IF FIsZero(x) THEN 0
    ELSE IF x.e >= 0 THEN BToInt(BShl(x.m, x.e))
    ELSE BToInt(BShr(x.m, 0 - x.e))

(* math.ceil(x) *)
FCeil(x) ==
    IF FCmp(FFromInt(FFloor(x)), x) = 0 THEN FFloor(x) ELSE FFloor(x) + 1

----------------------------------------------------------------------------
(* token_bucket.lua in Lua numbers, for timestamps not before the key's     *)
(* last refill time.  HMSET writes the token count as a decimal string that *)
(* HMGET and tonumber read back as the same double, so the persisted value  *)
(* is the double itself.                                                    *)

(* a refill rate is given in tenths of a token per second: the decimal     *)
(* par / 10 of the request reaches the script as the nearest double        *)
RateDecimals == 10
LuaRate(par) == FDiv(FFromInt(par), FFromInt(RateDecimals))

(* lines 42-49: the tokens and the time are written, the key's expiry is    *)
(* set and the decision is returned with the whole tokens left             *)
LuaPersist(d, key, capacity, refill_rate, now, clk, tokens, allowed) ==
    [db |-> [d EXCEPT ![key] =
                Expire(HashValue(tokens, now, d[key].exp), clk,
                       FCeil(FMul(FDiv(FFromInt(capacity), refill_rate),
                                  FFromInt(TtlFactor))))],
     reply |-> ScriptReply(allowed, FFloor(tokens))]

(* lines 34-38: an allowed request takes one token *)
LuaConsume(d, key, capacity, refill_rate, now, clk, tokens, allowed) ==
    LuaPersist(d, key, capacity, refill_rate, now, clk,
               IF allowed = 1 THEN FSub(tokens, FFromInt(1)) ELSE tokens, allowed)

(* line 34: tokens >= 1 *)
LuaDecide(d, key, capacity, refill_rate, now, clk, tokens) ==
    LuaConsume(d, key, capacity, refill_rate, now, clk, tokens,
               IF FCmp(tokens, FFromInt(1)) >= 0 THEN 1 ELSE 0)

(* lines 26-30: the tokens for the elapsed time are added, up to capacity *)
LuaRefill(d, key, capacity, refill_rate, now, clk, tokens, last_refill) ==
    LuaDecide(d, key, capacity, refill_rate, now, clk,
              FMin(FFromInt(capacity),
                   FAdd(tokens,
                        FMul(FDiv(FFromInt(now - last_refill), FFromInt(MsPerSecond)),
                             refill_rate))))

(* lines 14-22: the bucket is read; a missing one starts full *)
TokenBucketLua(d, key, capacity, refill_rate, now, clk) ==
    IF d[key].type \notin {"none", "hash"}
    THEN [db |-> d, reply |-> ScriptError]          \* HMGET: WRONGTYPE
    ELSE LuaRefill(d, key, capacity, refill_rate, now, clk,
                   IF d[key].type = "none" THEN FFromInt(capacity) ELSE d[key].tokens,
                   IF d[key].type = "none" THEN now ELSE d[key].last_refill)

----------------------------------------------------------------------------
(* redis/client.go: errors and their classification.  A Go string is the   *)
(* sequence of its characters.                                             *)

StrConnectionRefused ==
    <<"c", "o", "n", "n", "e", "c", "t", "i", "o", "n", " ", "r", "e", "f", "u", "s", "e", "d">>
StrConnectionReset ==
    <<"c", "o", "n", "n", "e", "c", "t", "i", "o", "n", " ", "r", "e", "s", "e", "t">>
StrBrokenPipe ==
    <<"b", "r", "o", "k", "e", "n", " ", "p", "i", "p", "e">>
StrIOTimeout ==
    <<"i", "/", "o", " ", "t", "i", "m", "e", "o", "u", "t">>

(* An error returned by the Redis client library: whether its chain holds  *)
(* context.DeadlineExceeded or context.Canceled, and its message.          *)
GoError(name, deadline, canceled, msg) ==
    [name |-> name, deadline |-> deadline, canceled |-> canceled, msg |-> msg]

ErrDeadlineExceeded ==
    GoError("deadline", TRUE, FALSE,
        <<"c", "o", "n", "t", "e", "x", "t", " ", "d", "e", "a", "d", "l", "i", "n", "e", " ", "e", "x", "c", "e", "e", "d", "e", "d">>)
ErrCanceled ==
    GoError("canceled", FALSE, TRUE,
        <<"c", "o", "n", "t", "e", "x", "t", " ", "c", "a", "n", "c", "e", "l", "e", "d">>)
ErrCanceledDuringRead ==
    GoError("canceled_reset", FALSE, TRUE,
        <<"c", "o", "n", "n", "e", "c", "t", "i", "o", "n", " ", "r", "e", "s", "e", "t", ":", " ", "c", "o", "n", "t", "e", "x", "t", " ", "c", "a", "n", "c", "e", "l", "e", "d">>)
ErrConnectionRefused ==
    GoError("refused", FALSE, FALSE,
        <<"d", "i", "a", "l", " ", "t", "c", "p", ":", " ", "c", "o", "n", "n", "e", "c", "t", "i", "o", "n", " ", "r", "e", "f", "u", "s", "e", "d">>)
ErrConnectionReset ==
    GoError("reset", FALSE, FALSE,
        <<"r", "e", "a", "d", ":", " ", "c", "o", "n", "n", "e", "c", "t", "i", "o", "n", " ", "r", "e", "s", "e", "t", " ", "b", "y", " ", "p", "e", "e", "r">>)
ErrBrokenPipe ==
    GoError("pipe", FALSE, FALSE,
        <<"w", "r", "i", "t", "e", ":", " ", "b", "r", "o", "k", "e", "n", " ", "p", "i", "p", "e">>)
ErrIOTimeout ==
    GoError("iotimeout", FALSE, FALSE,
        <<"r", "e", "a", "d", " ", "t", "c", "p", ":", " ", "i", "/", "o", " ", "t", "i", "m", "e", "o", "u", "t">>)
ErrWrongType ==
    GoError("wrongtype", FALSE, FALSE,
        <<"W", "R", "O", "N", "G", "T", "Y", "P", "E">>)
ErrEOF ==
    GoError("eof", FALSE, FALSE,
        <<"E", "O", "F">>)

(* What rdb.Eval can fail with when the call does not come back with the   *)
(* script's reply *)
TransportErrors ==
    {ErrDeadlineExceeded, ErrCanceled, ErrCanceledDuringRead, ErrConnectionRefused,
     ErrConnectionReset, ErrBrokenPipe, ErrIOTimeout, ErrEOF}

RECURSIVE containsSlowFrom(_, _, _)
containsSlowFrom(s, substr, i) ==
    IF i > Len(s) - Len(substr) THEN FALSE
    ELSE IF SubSeq(s, i + 1, i + Len(substr)) = substr THEN TRUE
    ELSE containsSlowFrom(s, substr, i + 1)

containsSlow(s, substr) == containsSlowFrom(s, substr, 0)

containsLongerOnly(s, substr) ==
    Len(s) > Len(substr) /\ containsSlow(s, substr)

contains(s, substr) ==
    Len(s) >= Len(substr)
    /\ (s = substr \/ (Len(s) > Len(substr) /\ containsSlow(s, substr)))

(* contains and containsSlow, statement by statement.  A string is a        *)
(* sequence of bytes; the call is at "contains" before the condition of     *)
(* contains is evaluated, at "containsSlow" at the head of the loop with    *)
(* index i, and ends in "returned" with its result, or in "panic" when a    *)
(* slice expression is out of range.                                        *)

NoProbe ==
    [pc |-> "none", s |-> <<>>, substr |-> <<>>, i |-> 0, result |-> FALSE]

(* s[lo:hi] is in range when 0 <= lo <= hi <= len(s) *)
SliceInRange(s, lo, hi) == 0 <= lo /\ lo <= hi /\ hi <= Len(s)

(* s[lo:hi]: the bytes of s at the indices lo .. hi - 1, counted from 0 *)
Slice(s, lo, hi) == [k \in 1..(hi - lo) |-> s[lo + k]]

containsSlowContinueStrict(s, substr, i) == i < Len(s) - Len(substr)

(* the loop condition i <= len(s)-len(substr) *)
containsSlowContinue(s, substr, i) == i <= Len(s) - Len(substr)

(* contains up to its return or its call of containsSlow: the operands of  *)
(* && and || are evaluated left to right and only as far as needed         *)
ContainsEnter ==
    /\ probe.pc = "contains"
    /\ probe' =
          IF ~(Len(probe.s) >= Len(probe.substr))
          THEN [probe EXCEPT !.pc = "returned", !.result = FALSE]
          ELSE IF probe.s = probe.substr
          THEN [probe EXCEPT !.pc = "returned", !.result = TRUE]
          ELSE IF ~(Len(probe.s) > Len(probe.substr))
          THEN [probe EXCEPT !.pc = "returned", !.result = FALSE]
          ELSE [probe EXCEPT !.pc = "containsSlow", !.i = 0]
    /\ UNCHANGED <<clock, db, inflight, hist, allowedCnt, blockedCnt, redisErrors, ret,
                   issued, redis, store>>

(* one evaluation of containsSlow's loop condition and, when it holds, of  *)
(* the loop body *)
ContainsSlowStep ==
    /\ probe.pc = "containsSlow"
    /\ probe' =
          IF ~containsSlowContinue(probe.s, probe.substr, probe.i)
          THEN [probe EXCEPT !.pc = "returned", !.result = FALSE]
          ELSE IF ~SliceInRange(probe.s, probe.i, probe.i + Len(probe.substr))
          THEN [probe EXCEPT !.pc = "panic"]
          ELSE IF Slice(probe.s, probe.i, probe.i + Len(probe.substr)) = probe.substr
          THEN [probe EXCEPT !.pc = "returned", !.result = TRUE]
          ELSE [probe EXCEPT !.i = probe.i + 1]
    /\ UNCHANGED <<clock, db, inflight, hist, allowedCnt, blockedCnt, redisErrors, ret,
                   issued, redis, store>>

isNetworkErrorNoPipe(err) ==
    \/ contains(err.msg, StrConnectionRefused)
    \/ contains(err.msg, StrConnectionReset)
    \/ contains(err.msg, StrIOTimeout)

isNetworkError(err) ==
    \/ contains(err.msg, StrConnectionRefused)
    \/ contains(err.msg, StrConnectionReset)
    \/ contains(err.msg, StrBrokenPipe)
    \/ contains(err.msg, StrIOTimeout)

shouldFailOpenMessageOnly(err) ==
    IF err.deadline THEN TRUE
    ELSE isNetworkError(err)

shouldFailOpen(err) ==
    IF err.deadline THEN TRUE
    ELSE IF err.canceled THEN FALSE
    ELSE isNetworkError(err)

(* the caller's context has no deadline *)
NoDeadline == -1

(* Client.EvalLua: the deadline of the context handed to rdb.Eval, for a   *)
(* call made at time now under a caller's context with deadline            *)
(* ctxDeadline                                                             *)
EvalLuaDeadline(now, ctxDeadline) ==
    IF ctxDeadline = NoDeadline THEN now + RedisTimeout ELSE ctxDeadline

(* Client.EvalLua: what the algorithm gets back.  kind is "reply" (the     *)
(* script's reply, in the shape the client library decoded), "failopen"    *)
(* (a FailOpenError) or "error" (any other error, passed on).              *)
EvalResult(kind, shape, allowed, remaining) ==
    [kind |-> kind, shape |-> shape, allowed |-> allowed, remaining |-> remaining]

(* no error *)
NoError == GoError("nil", FALSE, FALSE, <<>>)

(* &FailOpenError{Cause: err} *)
FailOpenError(err) == [name |-> "FailOpenError", Cause |-> err]

(* Client.EvalLua: the error it returns when rdb.Eval failed with err *)
EvalLuaReturnedError(err) ==
    IF shouldFailOpen(err) THEN FailOpenError(err) ELSE err

EvalLuaError(err) ==
    IF shouldFailOpen(err)
    THEN EvalResult("failopen", "none", 0, 0)
    ELSE EvalResult("error", "none", 0, 0)

EvalLuaReplyIgnoringError(reply, shape) ==
    EvalResult("reply", shape, reply.allowed, reply.remaining)

EvalLuaReply(reply, shape) ==
    IF reply.ok
    THEN EvalResult("reply", shape, reply.allowed, reply.remaining)
    ELSE EvalLuaError(ErrWrongType)

(* The shapes a decoded reply can have: the two integers the scripts       *)
(* return, or something a misbehaving store sends instead.                 *)
ReplyShapes == {"pair", "notslice", "badlen", "nonint"}

----------------------------------------------------------------------------
(* limiter: what a Check returns and which counter it increments *)

CheckOutcome(kind, allowed, remaining, counter) ==
    [kind |-> kind, allowed |-> allowed, remaining |-> remaining, counter |-> counter]

InterpretResultUnchecked(res) ==
    IF res.kind = "failopen"
    THEN CheckOutcome("failopen", TRUE, 0, "errors")
    ELSE IF res.kind = "error"
    THEN CheckOutcome("error", FALSE, 0, "none")
    ELSE IF res.shape \in {"notslice", "badlen"}
    THEN CheckOutcome("error", FALSE, 0, "none")
    ELSE IF res.shape = "nonint"
    THEN CheckOutcome("ok", FALSE, 0, "blocked")
    ELSE IF res.allowed = 1
    THEN CheckOutcome("ok", TRUE, res.remaining, "allowed")
    ELSE CheckOutcome("ok", FALSE, res.remaining, "blocked")

(* the part of TokenBucketLimiter.Check / SlidingWindowLimiter.Check after *)
(* the store call *)
InterpretResult(res) ==
    IF res.kind = "failopen"
    THEN CheckOutcome("failopen", TRUE, 0, "errors")
    ELSE IF res.kind = "error"
    THEN CheckOutcome("error", FALSE, 0, "none")
    ELSE IF res.shape \in {"notslice", "badlen"}
    THEN CheckOutcome("error", FALSE, 0, "none")     \* unexpected response format
    ELSE IF res.shape = "nonint"
    THEN CheckOutcome("error", FALSE, 0, "none")     \* failed to parse
    ELSE IF res.allowed = 1
    THEN CheckOutcome("ok", TRUE, res.remaining, "allowed")
    ELSE CheckOutcome("ok", FALSE, res.remaining, "blocked")

TokenBucketLimiterCheck(res) == InterpretResult(res)
SlidingWindowLimiterCheck(res) == InterpretResult(res)

TokenBucketInvalidNegativeOnly(capacity, refillRate) == capacity < 0 \/ refillRate <= 0

(* the parameter checks made before any store call: TRUE when they fail *)
TokenBucketInvalid(capacity, refillRate) == capacity <= 0 \/ refillRate <= 0
SlidingWindowInvalid(capacity, windowSeconds) == capacity <= 0 \/ windowSeconds <= 0

(* Limiter.Check up to the store call: TRUE when the request is rejected   *)
LimiterRejects(key, algorithm, capacity, par) ==
    IF key = "" THEN TRUE
    ELSE IF algorithm = AlgorithmTokenBucket THEN TokenBucketInvalid(capacity, par)
    ELSE IF algorithm = AlgorithmSlidingWindow THEN SlidingWindowInvalid(capacity, par)
    ELSE TRUE

----------------------------------------------------------------------------
(* The state machine *)

(* a check request: par is refill_rate (in 1/RateDen tokens per second) for *)
(* token_bucket, window_seconds for sliding_window; 0 is also what a field *)
(* missing from the JSON body decodes to                                   *)
CheckRequest(key, algorithm, capacity, par) ==
    [key |-> key, algorithm |-> algorithm, capacity |-> capacity, par |-> par]

NoRequest == CheckRequest("", "", 0, 0)

(* the JSON bodies of the responses: respondError's {"error": message} and  *)
(* the CheckResponse {"allowed": .., "remaining": ..}; http.Error writes    *)
(* the message as plain text; NoBody when nothing was answered              *)
respondError(message) == [error |-> message]
CheckResponseBody(allowed, remaining) == [allowed |-> allowed, remaining |-> remaining]
PlainText(message) == [text |-> message]
NoBody == [none |-> ""]

NoReturn ==
    [kind |-> "none", allowed |-> FALSE, remaining |-> 0, counter |-> "none",
     cause |-> "none", key |-> "", alg |-> "", idx |-> 0,
     entry |-> "none", seq |-> 0, status |-> 0, msg |-> "", req |-> NoRequest,
     evalErr |-> NoError, body |-> NoBody]

(* main after a start in which NewClient connected *)
Init ==
    /\ clock = 0
    /\ db = [k \in RKeys |-> NoValue]
    /\ inflight = EmptyBag
    /\ hist = [k \in Keys |-> <<>>]
    /\ allowedCnt = [a \in Algorithms |-> 0]
    /\ blockedCnt = [a \in Algorithms |-> 0]
    /\ redisErrors = 0
    /\ ret = NoReturn
    /\ issued = 0
    /\ redis = "connected"
    /\ store = "up"
    /\ probe = NoProbe

CountUnderOneTag(out, alg) ==
    /\ allowedCnt' = IF out.counter = "allowed"
                     THEN [allowedCnt EXCEPT ![AlgorithmTokenBucket] = @ + 1]
                     ELSE allowedCnt
    /\ blockedCnt' = IF out.counter = "blocked"
                     THEN [blockedCnt EXCEPT ![AlgorithmTokenBucket] = @ + 1]
                     ELSE blockedCnt
    /\ redisErrors' = IF out.counter = "errors" THEN redisErrors + 1 ELSE redisErrors

(* the counters after a check returned outcome out under algorithm alg *)
Count(out, alg) ==
    /\ allowedCnt' = IF out.counter = "allowed"
                     THEN [allowedCnt EXCEPT ![alg] = @ + 1] ELSE allowedCnt
    /\ blockedCnt' = IF out.counter = "blocked"
                     THEN [blockedCnt EXCEPT ![alg] = @ + 1] ELSE blockedCnt
    /\ redisErrors' = IF out.counter = "errors" THEN redisErrors + 1 ELSE redisErrors

(* what the check returned, and cause: what its store call ended with (an   *)
(* error's name, the decoded shape of a reply, "invalid" for no call)       *)
(* HandleCheck's response to what Limiter.Check returned *)
respondCheckAlwaysJSON(out) ==
    IF out.kind = "error"
    THEN [status |-> 500, msg |-> "internal server error",
          body |-> CheckResponseBody(out.allowed, out.remaining)]
    ELSE [status |-> 200, msg |-> "",
          body |-> CheckResponseBody(out.allowed, out.remaining)]

respondCheck(out) ==
    IF out.kind = "error"
    THEN [status |-> 500, msg |-> "internal server error",
          body |-> respondError("internal server error")]
    ELSE [status |-> 200, msg |-> "",
          body |-> CheckResponseBody(out.allowed, out.remaining)]

Returned(out, cause, key, alg, idx, req) ==
    [kind |-> out.kind, allowed |-> out.allowed, remaining |-> out.remaining,
     counter |-> out.counter, cause |-> cause, key |-> key, alg |-> alg, idx |-> idx,
     entry |-> "HandleCheck", seq |-> 0,
     status |-> respondCheck(out).status, msg |-> respondCheck(out).msg, req |-> req,
     evalErr |-> NoError, body |-> respondCheck(out).body]

(* Limiter.Check with a request that fails the parameter checks: an error, *)
(* no store call *)
Reject(key, algorithm, capacity, par) ==
    /\ LimiterRejects(key, algorithm, capacity, par)
    /\ issued' = issued + 1
    /\ ret' = [Returned(CheckOutcome("error", FALSE, 0, "none"), "invalid", "", "", 0,
                        CheckRequest(key, algorithm, capacity, par))
                   EXCEPT !.entry = "Limiter.Check", !.seq = issued + 1,
                          !.status = 0, !.msg = "", !.body = NoBody]
    /\ UNCHANGED <<clock, db, inflight, hist, allowedCnt, blockedCnt, redisErrors, redis, store, probe>>

validateCheckRequestAlgorithmFirst(req) ==
    IF req.key = "" THEN "key is required"
    ELSE IF req.algorithm = AlgorithmTokenBucket /\ req.par <= 0
    THEN "refill_rate must be positive for token_bucket"
    ELSE IF req.algorithm = AlgorithmSlidingWindow /\ req.par <= 0
    THEN "window_seconds must be positive for sliding_window"
    ELSE IF req.algorithm \notin Algorithms
    THEN "algorithm must be 'token_bucket' or 'sliding_window'"
    ELSE IF req.capacity <= 0 THEN "capacity must be positive"
    ELSE ""

(* api: the first rule the request fails, "" when it passes every rule *)
validateCheckRequest(req) ==
    IF req.key = "" THEN "key is required"
    ELSE IF req.capacity <= 0 THEN "capacity must be positive"
    ELSE IF req.algorithm = AlgorithmTokenBucket
    THEN IF req.par <= 0 THEN "refill_rate must be positive for token_bucket" ELSE ""
    ELSE IF req.algorithm = AlgorithmSlidingWindow
    THEN IF req.par <= 0 THEN "window_seconds must be positive for sliding_window" ELSE ""
    ELSE "algorithm must be 'token_bucket' or 'sliding_window'"

(* HandleCheck with a request that fails validation: 400 with the message, *)
(* Limiter.Check is not called *)
HandleCheckInvalid(key, algorithm, capacity, par) ==
    LET req == CheckRequest(key, algorithm, capacity, par)
    IN  /\ validateCheckRequest(req) # ""
        /\ issued' = issued + 1
        /\ ret' = [NoReturn EXCEPT !.kind = "error", !.cause = "invalid",
                                   !.entry = "HandleCheck", !.seq = issued + 1,
                                   !.status = 400, !.msg = validateCheckRequest(req),
                                   !.body = respondError(validateCheckRequest(req)),
                                   !.req = req]
        /\ UNCHANGED <<clock, db, inflight, hist, allowedCnt, blockedCnt, redisErrors, redis, store, probe>>

(* HandleCheck with a valid request in a service whose NewClient failed:   *)
(* the algorithm calls EvalLua on the nil *Client, the nil dereference     *)
(* panics, and the Recovery middleware answers 500                         *)
CheckOnNilClient(key, algorithm, capacity, par) ==
    LET req == CheckRequest(key, algorithm, capacity, par)
    IN  /\ redis = "nil"
        /\ validateCheckRequest(req) = ""
        /\ ~LimiterRejects(key, algorithm, capacity, par)
        /\ issued' = issued + 1
        /\ ret' = [NoReturn EXCEPT !.kind = "panic", !.cause = "nil",
                                   !.key = key, !.alg = algorithm,
                                   !.entry = "HandleCheck", !.seq = issued + 1,
                                   !.status = 500, !.msg = "internal server error",
                                   !.body = PlainText("internal server error"),
                                   !.req = req]
        /\ UNCHANGED <<clock, db, inflight, hist, allowedCnt, blockedCnt, redisErrors,
                       redis, store, probe>>

(* Limiter.Check with a valid request, up to the store call: the algorithm *)
(* reads the client's clock and sends the script with its arguments        *)
Call(key, algorithm, capacity, par, ctxDeadline) ==
    /\ redis = "connected"
    /\ BagCardinality(inflight) < MaxInFlight
    /\ ~LimiterRejects(key, algorithm, capacity, par)
    /\ issued' = issued + 1
    /\ inflight' = inflight (+) SetToBag({
                  [pc |-> "sent", key |-> key, alg |-> algorithm, capacity |-> capacity,
                   par |-> par, at |-> clock, reply |-> ScriptError, idx |-> 0,
                   ctx |-> ctxDeadline, deadline |-> EvalLuaDeadline(clock, ctxDeadline)]})
    /\ UNCHANGED <<clock, db, hist, allowedCnt, blockedCnt, redisErrors, ret, redis, store, probe>>

(* the timestamp argument of the script *)
ScriptNow(algorithm, at) ==
    IF algorithm = AlgorithmTokenBucket THEN NowMillis(at) ELSE NowSeconds(at)

RunScript(d, r, clk) ==
    IF r.alg = AlgorithmTokenBucket
    THEN TokenBucketScript(d, r.key, r.capacity, r.par, ScriptNow(r.alg, r.at), clk)
    ELSE SlidingWindowScript(d, r.key, r.capacity, r.par, ScriptNow(r.alg, r.at), clk)

(* The store runs the script of check r in one atomic step *)
Exec(r) ==
    /\ BagIn(r, inflight)
    /\ r.pc = "sent"
    /\ LET out == RunScript(db, r, clock)
           entry == [alg |-> r.alg, capacity |-> r.capacity, par |-> r.par, at |-> r.at,
                     now |-> ScriptNow(r.alg, r.at), ran |-> clock, ok |-> out.reply.ok,
                     allowed |-> out.reply.allowed = 1,
                     remaining |-> out.reply.remaining,
                     fresh |-> db[r.key].type = "none",
                     count |-> Cardinality(out.db[r.key].members)]
           done == [r EXCEPT !.pc = "exec", !.reply = out.reply,
                             !.idx = Len(hist[r.key]) + 1]
       IN  /\ db' = out.db
           /\ hist' = [hist EXCEPT ![r.key] = Append(@, entry)]
           /\ inflight' = (inflight (-) SetToBag({r})) (+) SetToBag({done})
    /\ UNCHANGED <<clock, allowedCnt, blockedCnt, redisErrors, ret, issued, redis, store, probe>>

(* The store runs the token-bucket script of check r, in Lua numbers, in    *)
(* one atomic step                                                          *)
ExecLua(r) ==
    /\ BagIn(r, inflight)
    /\ r.pc = "sent"
    /\ r.alg = AlgorithmTokenBucket
    /\ \E out \in {TokenBucketLua(db, r.key, r.capacity, LuaRate(r.par),
                                   ScriptNow(r.alg, r.at), clock)} :
          /\ db' = out.db
          /\ hist' = [hist EXCEPT ![r.key] =
                         Append(@, [alg |-> r.alg, capacity |-> r.capacity,
                                    par |-> r.par, at |-> r.at,
                                    now |-> ScriptNow(r.alg, r.at), ran |-> clock,
                                    ok |-> out.reply.ok,
                                    allowed |-> out.reply.allowed = 1,
                                    remaining |-> out.reply.remaining,
                                    fresh |-> db[r.key].type = "none",
                                    count |-> 0,
                                    tokens |-> out.db[r.key].tokens])]
          /\ inflight' = (inflight (-) SetToBag({r}))
                            (+) SetToBag({[r EXCEPT !.pc = "exec", !.reply = out.reply,
                                                    !.idx = Len(hist[r.key]) + 1]})
    /\ UNCHANGED <<clock, allowedCnt, blockedCnt, redisErrors, ret, issued, redis, store, probe>>

AlgorithmCheck(algorithm, res) ==
    IF algorithm = AlgorithmTokenBucket
    THEN TokenBucketLimiterCheck(res) ELSE SlidingWindowLimiterCheck(res)

(* The client gets the reply of the script, decoded in some shape *)
Return(r, shape) ==
    /\ BagIn(r, inflight)
    /\ r.pc = "exec"
    /\ LET out == AlgorithmCheck(r.alg, EvalLuaReply(r.reply, shape))
       IN  /\ Count(out, r.alg)
           /\ ret' = [Returned(out, IF r.reply.ok THEN shape ELSE ErrWrongType.name,
                               r.key, r.alg, r.idx,
                               CheckRequest(r.key, r.alg, r.capacity, r.par))
                          EXCEPT !.evalErr = IF r.reply.ok THEN NoError
                                             ELSE EvalLuaReturnedError(ErrWrongType)]
    /\ inflight' = inflight (-) SetToBag({r})
    /\ UNCHANGED <<clock, db, hist, issued, redis, store, probe>>

(* The store call of check r fails at the client with err: before the      *)
(* script ran, or after it ran with the reply never read                   *)
EvalFails(r, err) ==
    /\ BagIn(r, inflight)
    /\ LET out == AlgorithmCheck(r.alg, EvalLuaError(err))
       IN  /\ Count(out, r.alg)
           /\ ret' = [Returned(out, err.name, r.key, r.alg, r.idx,
                               CheckRequest(r.key, r.alg, r.capacity, r.par))
                          EXCEPT !.evalErr = EvalLuaReturnedError(err)]
    /\ inflight' = inflight (-) SetToBag({r})
    /\ UNCHANGED <<clock, db, hist, issued, redis, store, probe>>

(* Time passes; keys whose expiry has passed are gone *)
Tick(step) ==
    /\ clock' = clock + step
    /\ db' = Reclaim(db, clock + step)
    /\ UNCHANGED <<inflight, hist, allowedCnt, blockedCnt, redisErrors, ret, issued, redis, store, probe>>

(* The Redis server stops being reachable, and is reachable again *)
StoreFails ==
    /\ store = "up"
    /\ store' = "down"
    /\ UNCHANGED <<clock, db, inflight, hist, allowedCnt, blockedCnt, redisErrors, ret,
                   issued, redis, probe>>

StoreRecovers ==
    /\ store = "down"
    /\ store' = "up"
    /\ UNCHANGED <<clock, db, inflight, hist, allowedCnt, blockedCnt, redisErrors, ret,
                   issued, redis, probe>>

(* Client.Ping: the error of rdb.Ping, none when the server answers *)
Ping(st) == IF st = "up" THEN NoError ELSE ErrConnectionRefused

(* the bodies HandleHealth answers with *)
HealthyBody == [status |-> "healthy"]
UnhealthyBody == [status |-> "unhealthy", error |-> "redis connection failed"]

(* HandleHealth: 200 when the ping succeeds, 503 when it fails; on a nil    *)
(* *Client the ping dereferences nil, the handler panics and the Recovery   *)
(* middleware answers 500                                                   *)
HandleHealth ==
    /\ ret' = IF redis = "nil"
              THEN [NoReturn EXCEPT !.kind = "panic", !.cause = "nil",
                                    !.entry = "HandleHealth",
                                    !.status = 500, !.msg = "internal server error",
                                    !.body = PlainText("internal server error")]
              ELSE IF Ping(store) = NoError
              THEN [NoReturn EXCEPT !.kind = "ok", !.cause = "ping",
                                    !.entry = "HandleHealth",
                                    !.status = 200, !.body = HealthyBody]
              ELSE [NoReturn EXCEPT !.kind = "ok", !.cause = "ping",
                                    !.entry = "HandleHealth",
                                    !.status = 503, !.body = UnhealthyBody,
                                    !.evalErr = Ping(store)]
    /\ UNCHANGED <<clock, db, inflight, hist, allowedCnt, blockedCnt, redisErrors,
                   issued, redis, store, probe>>

----------------------------------------------------------------------------
(* Specifications.  StoreSpec: the store is reachable and answers every    *)
(* call, and each key is checked under one policy (algorithm, capacity and *)
(* refill rate or window) throughout a behaviour.                          *)

StoreKeys == {"a"}
StoreCapacities == {1, 2}
StoreParams(algorithm) ==
    IF algorithm = AlgorithmTokenBucket THEN {1, 2} ELSE {1, 2}

(* the checks made on key so far, executed or in flight *)
Policies(key) ==
    {<<e.alg, e.capacity, e.par>> : e \in {hist[key][i] : i \in 1..Len(hist[key])}}
    \cup {<<r.alg, r.capacity, r.par>> : r \in {x \in BagToSet(inflight) : x.key = key}}

StoreNext ==
    \/ \E key \in StoreKeys, a \in Algorithms, c \in StoreCapacities :
          \E par \in StoreParams(a) :
             /\ issued < MaxChecks
             /\ Policies(key) \subseteq {<<a, c, par>>}
             /\ Call(key, a, c, par, NoDeadline)
    \/ \E r \in BagToSet(inflight) : Exec(r)
    \/ \E r \in BagToSet(inflight) : Return(r, "pair")
    \/ \E step \in TickSteps : clock + step <= MaxClock /\ Tick(step)

StoreSpec == Init /\ [][StoreNext]_vars

(* ExpirySpec: token-bucket checks on one key at 1 token per second with a  *)
(* reachable store, over a time long enough for the key's expiry (2 *       *)
(* capacity seconds after its last check) to pass with a check in flight.   *)

MaxExpiryClock == 2500   \* last clock value of ExpirySpec, milliseconds

ExpiryCapacities == {1}
ExpiryRates == {RateDen}

ExpiryNext ==
    \/ \E key \in StoreKeys, c \in ExpiryCapacities, par \in ExpiryRates :
          issued < MaxChecks /\ Call(key, AlgorithmTokenBucket, c, par, NoDeadline)
    \/ \E r \in BagToSet(inflight) : Exec(r)
    \/ \E r \in BagToSet(inflight) : Return(r, "pair")
    \/ \E step \in TickSteps : clock + step <= MaxExpiryClock /\ Tick(step)

ExpirySpec == Init /\ [][ExpiryNext]_vars

(* DeadlineSpec: token-bucket checks on one key made under a caller's       *)
(* context with or without a deadline, on a millisecond time scale.  The    *)
(* reply is taken while the deadline of the store call has not passed;      *)
(* from the deadline on the call fails with context.DeadlineExceeded.       *)

MaxDeadlineClock == 4    \* last clock value of DeadlineSpec, milliseconds

DeadlineTickSteps == {1}
CallerDeadlines(clk) == {NoDeadline, clk + 1, clk + 3}

DeadlineNext ==
    \/ \E key \in StoreKeys, c \in ExpiryCapacities, par \in ExpiryRates :
          \E ctxDeadline \in CallerDeadlines(clock) :
             /\ issued < MaxFaultChecks
             /\ Call(key, AlgorithmTokenBucket, c, par, ctxDeadline)
    \/ \E r \in BagToSet(inflight) : Exec(r)
    \/ \E r \in BagToSet(inflight) : clock < r.deadline /\ Return(r, "pair")
    \/ \E r \in BagToSet(inflight) : clock >= r.deadline /\ EvalFails(r, ErrDeadlineExceeded)
    \/ \E step \in DeadlineTickSteps : clock + step <= MaxDeadlineClock /\ Tick(step)

DeadlineSpec == Init /\ [][DeadlineNext]_vars

(* LogExpirySpec: sliding-window checks on one key with capacity 2 and a    *)
(* 1-second window and a reachable store, over a time long enough for the  *)
(* log and its sequence counter to expire (window + 10 seconds after the   *)
(* last check), also with a check in flight.                               *)

MaxLogExpiryClock == 12000   \* last clock value of LogExpirySpec, milliseconds

LogExpiryCapacities == {2}
LogExpiryWindows == {1}
LogExpiryTickSteps == {6000}

LogExpiryNext ==
    \/ \E key \in StoreKeys, c \in LogExpiryCapacities, w \in LogExpiryWindows :
          issued < MaxChecks /\ Call(key, AlgorithmSlidingWindow, c, w, NoDeadline)
    \/ \E r \in BagToSet(inflight) : Exec(r)
    \/ \E r \in BagToSet(inflight) : Return(r, "pair")
    \/ \E step \in LogExpiryTickSteps : clock + step <= MaxLogExpiryClock /\ Tick(step)

LogExpirySpec == Init /\ [][LogExpiryNext]_vars

(* TtlSpec: checks on one key under one algorithm, with capacities and      *)
(* windows that can differ from check to check and a refill rate of        *)
(* (RateDen + 1) / RateDen tokens per second, for which capacity /         *)
(* refill_rate * 2 is not a whole number of seconds.                       *)

TtlCapacities == {1, 2}
TtlParams(algorithm) ==
    IF algorithm = AlgorithmTokenBucket THEN {RateDen + 1} ELSE {1, 2}

TtlNext ==
    \/ \E key \in StoreKeys, a \in Algorithms, c \in TtlCapacities :
          \E par \in TtlParams(a) :
             /\ issued < MaxChecks
             /\ {p[1] : p \in Policies(key)} \subseteq {a}
             /\ Call(key, a, c, par, NoDeadline)
    \/ \E r \in BagToSet(inflight) : Exec(r)
    \/ \E r \in BagToSet(inflight) : Return(r, "pair")
    \/ \E step \in TickSteps : clock + step <= MaxFaultClock /\ Tick(step)

TtlSpec == Init /\ [][TtlNext]_vars

(* LuaNumberSpec: token-bucket checks on one key with capacity 1 at 0.1     *)
(* tokens per second, made one after the other (each returns before the     *)
(* next starts, so timestamps never decrease), with the script computing in *)
(* Lua numbers; the key's expiry (20 seconds) is never reached.             *)

MaxLuaClock == 4500   \* last clock value of LuaNumberSpec, milliseconds

LuaRates == {1}
LuaTickSteps == {1500}

LuaNumberNext ==
    \/ \E key \in StoreKeys, c \in ExpiryCapacities, par \in LuaRates :
          /\ issued < MaxChecks
          /\ inflight = EmptyBag
          /\ Call(key, AlgorithmTokenBucket, c, par, NoDeadline)
    \/ \E r \in BagToSet(inflight) : ExecLua(r)
    \/ \E r \in BagToSet(inflight) : Return(r, "pair")
    \/ \E step \in LuaTickSteps : clock + step <= MaxLuaClock /\ Tick(step)

LuaNumberSpec == Init /\ [][LuaNumberNext]_vars

(* RecoverySpec: token-bucket checks on one key with capacity 1 at 1.0      *)
(* token per second, made one after the other with the script computing in  *)
(* Lua numbers, over the second after the bucket was emptied; every step    *)
(* that can be taken is eventually taken.                                  *)

MaxRecoveryChecks == 4    \* checks made in a behaviour of RecoverySpec
MaxRecoveryClock == 1000  \* last clock value of RecoverySpec, milliseconds

RecoveryRates == {RateDecimals}
RecoveryTickSteps == {300, 350}

RecoveryNext ==
    \/ \E key \in StoreKeys, c \in ExpiryCapacities, par \in RecoveryRates :
          /\ issued < MaxRecoveryChecks
          /\ inflight = EmptyBag
          /\ Call(key, AlgorithmTokenBucket, c, par, NoDeadline)
    \/ \E r \in BagToSet(inflight) : ExecLua(r)
    \/ \E r \in BagToSet(inflight) : Return(r, "pair")
    \/ \E step \in RecoveryTickSteps : clock + step <= MaxRecoveryClock /\ Tick(step)

RecoverySpec == Init /\ [][RecoveryNext]_vars /\ WF_vars(RecoveryNext)

(* ClassifySpec: checks on one key whose store call fails, with any error   *)
(* the client library can hand back: its chain with or without             *)
(* context.DeadlineExceeded and context.Canceled, and a message that is,   *)
(* contains, nearly contains or does not contain a network-error text.     *)

ClassifyMessages ==
    <<StrConnectionRefused, StrConnectionReset, StrBrokenPipe, StrIOTimeout,
      ErrConnectionRefused.msg, ErrConnectionReset.msg, ErrBrokenPipe.msg,
      ErrIOTimeout.msg, ErrCanceledDuringRead.msg,
      ErrCanceled.msg, ErrDeadlineExceeded.msg, ErrWrongType.msg, ErrEOF.msg,
      <<>>,
      SubSeq(StrBrokenPipe, 1, Len(StrBrokenPipe) - 1),          \* "broken pip"
      <<"C">> \o Tail(StrConnectionRefused),                     \* "Connection refused"
      SubSeq(StrIOTimeout, 1, 3) \o <<" ">> \o SubSeq(StrIOTimeout, 4, Len(StrIOTimeout)),
      Tail(StrConnectionReset) \o StrConnectionReset>>

ClassifyErrorName(deadline, canceled, i) ==
    ToString(i) \o (IF deadline THEN ":deadline" ELSE "")
                \o (IF canceled THEN ":canceled" ELSE "")

ClassifyErrors ==
    {GoError(ClassifyErrorName(d, c, i), d, c, ClassifyMessages[i]) :
        d \in BOOLEAN, c \in BOOLEAN, i \in 1..Len(ClassifyMessages)}

ClassifyParams(algorithm) ==
    IF algorithm = AlgorithmTokenBucket THEN ExpiryRates ELSE {1}

ClassifyNext ==
    \/ \E key \in StoreKeys, a \in Algorithms, c \in ExpiryCapacities :
          \E par \in ClassifyParams(a) :
             issued < MaxFaultChecks /\ Call(key, a, c, par, NoDeadline)
    \/ \E r \in BagToSet(inflight) : Exec(r)
    \/ \E r \in BagToSet(inflight), err \in ClassifyErrors : EvalFails(r, err)

ClassifySpec == Init /\ [][ClassifyNext]_vars

(* PolicySpec: checks on one key under one algorithm and one refill rate or *)
(* window, with a capacity that can differ from check to check.             *)

MaxPolicyClock == 1500   \* last clock value of PolicySpec, milliseconds

PolicyCapacities == {1, 3}
PolicyParams(algorithm) ==
    IF algorithm = AlgorithmTokenBucket THEN {RateDen} ELSE {1}

PolicyNext ==
    \/ \E key \in StoreKeys, a \in Algorithms, c \in PolicyCapacities :
          \E par \in PolicyParams(a) :
             /\ issued < MaxChecks
             /\ {<<p[1], p[3]>> : p \in Policies(key)} \subseteq {<<a, par>>}
             /\ Call(key, a, c, par, NoDeadline)
    \/ \E r \in BagToSet(inflight) : Exec(r)
    \/ \E r \in BagToSet(inflight) : Return(r, "pair")
    \/ \E step \in TickSteps : clock + step <= MaxPolicyClock /\ Tick(step)

PolicySpec == Init /\ [][PolicyNext]_vars

(* Spec: any request, valid or not, on either key with either algorithm;   *)
(* the store call can fail with any error and the reply can be malformed.  *)

KeyInputs == Keys \cup {""}
AlgorithmInputs == Algorithms \cup {"bogus"}
CapacityInputs == {0, 1}
ParamInputs(algorithm) ==
    IF algorithm = AlgorithmTokenBucket THEN {0, 2} ELSE {0, 1}

Next ==
    \/ \E key \in KeyInputs, a \in AlgorithmInputs, c \in CapacityInputs :
          \E par \in ParamInputs(a) :
             issued < MaxFaultChecks /\ HandleCheckInvalid(key, a, c, par)
    \/ \E key \in KeyInputs, a \in AlgorithmInputs, c \in CapacityInputs :
          \E par \in ParamInputs(a) : issued < MaxFaultChecks /\ Reject(key, a, c, par)
    \/ \E key \in KeyInputs, a \in AlgorithmInputs, c \in CapacityInputs :
          \E par \in ParamInputs(a) :
             issued < MaxFaultChecks /\ Call(key, a, c, par, NoDeadline)
    \/ \E r \in BagToSet(inflight) : Exec(r)
    \/ \E r \in BagToSet(inflight), shape \in ReplyShapes : Return(r, shape)
    \/ \E r \in BagToSet(inflight), err \in TransportErrors : EvalFails(r, err)
    \/ \E step \in TickSteps : clock + step <= MaxFaultClock /\ Tick(step)

Spec == Init /\ [][Next]_vars

----------------------------------------------------------------------------
(* Properties *)

MaxOf(S) == CHOOSE x \in S : \A y \in S : y <= x
MinOf(S) == CHOOSE x \in S : \A y \in S : x <= y

Indices(h) == 1..Len(h)
AllowedCount(h) == Cardinality({i \in Indices(h) : h[i].allowed})

(* every execution of h ran the same policy and replied with a decision *)
OnePolicy(h) ==
    \A i \in Indices(h) :
        /\ h[i].ok
        /\ h[i].alg = h[1].alg
        /\ h[i].capacity = h[1].capacity
        /\ h[i].par = h[1].par

(* a burst: from the first clock reading to the last execution, the checks  *)
(* of h span less than the time the token bucket needs to add one token,    *)
(* or lie within one window of the sliding-window log                       *)
Burst(h) ==
    LET first == MinOf({h[i].at : i \in Indices(h)})
        last == MaxOf({h[i].ran : i \in Indices(h)})
    IN  IF h[1].alg = AlgorithmTokenBucket
        THEN (last - first) * h[1].par < TokenOne
        ELSE NowSeconds(last) - NowSeconds(first) < h[1].par

(* the store ran the checks in the order of their timestamps *)
InOrder(h) == \A i \in Indices(h) : i < Len(h) => h[i].at <= h[i + 1].at

FreshBurst(h) ==
    Len(h) > 0 /\ h[1].fresh /\ OnePolicy(h) /\ Burst(h)

(* C1: Atomicity under concurrency.  When more checks than the capacity C   *)
(* are made in a burst on a fresh key, whatever the order in which the      *)
(* store runs them, exactly C of them are allowed.                          *)
C1_ExactlyCapacityAllowed ==
    \A k \in Keys :
        LET h == hist[k]
        IN  (FreshBurst(h) /\ Len(h) > h[1].capacity)
                => AllowedCount(h) = h[1].capacity

Returning == BagCardinality(inflight') < BagCardinality(inflight)

CountersUnchanged ==
    /\ allowedCnt' = allowedCnt
    /\ blockedCnt' = blockedCnt
    /\ redisErrors' = redisErrors

(* the store call ended in a timeout, a refused or reset connection or a    *)
(* broken transport                                                         *)
UnavailableCauses ==
    {ErrDeadlineExceeded.name, ErrConnectionRefused.name, ErrConnectionReset.name,
     ErrBrokenPipe.name, ErrIOTimeout.name}

(* the store call ended with the caller's context cancelled *)
CanceledCauses == {ErrCanceled.name, ErrCanceledDuringRead.name}

(* the reply is not a 2-element tuple of integers *)
MalformedCauses == {"notslice", "badlen", "nonint"}

(* C3: Fail-open.  A check whose store call fails as Unavailable returns    *)
(* allowed = true, remaining = 0 without error, and the store-error counter *)
(* goes up by exactly one, whatever the key and the algorithm.              *)
C3_FailOpen ==
    [][(Returning /\ ret'.cause \in UnavailableCauses)
          => /\ ret'.kind = "failopen"
             /\ ret'.allowed
             /\ ret'.remaining = 0
             /\ redisErrors' = redisErrors + 1]_vars

(* a sliding-window check has failed open on a broken pipe *)
C3_Witness ==
    /\ ret.cause = ErrBrokenPipe.name
    /\ ret.alg = AlgorithmSlidingWindow
    /\ ret.kind = "failopen"
    /\ redisErrors = 1

(* C4: Cancellation is not an outage.  A check whose store call ends with   *)
(* the caller's context cancelled returns an error, never allowed = true,   *)
(* and the store-error counter stays as it was.                             *)
C4_CancellationIsNotAnOutage ==
    [][(Returning /\ ret'.cause \in CanceledCauses)
          => /\ ret'.kind = "error"
             /\ ~ret'.allowed
             /\ redisErrors' = redisErrors]_vars

(* a check cancelled while reading from a reset connection returned an      *)
(* error                                                                    *)
C4_Witness ==
    /\ ret.cause = ErrCanceledDuringRead.name
    /\ ret.kind = "error"
    /\ redisErrors = 0

(* C5: A malformed reply is an error.  A check whose reply is not a         *)
(* 2-element tuple of integers returns an error, never allowed = true, and  *)
(* none of the allowed, blocked and store-error counters changes.           *)
C5_MalformedReplyIsAnError ==
    [][(Returning /\ ret'.cause \in MalformedCauses)
          => /\ ret'.kind = "error"
             /\ ~ret'.allowed
             /\ CountersUnchanged]_vars

(* the store ran a check and its reply, decoded with a non-integer element, *)
(* was returned as an error                                                 *)
C5_Witness ==
    /\ ret.cause = "nonint"
    /\ ret.idx > 0
    /\ ret.kind = "error"

(* the persisted state a check on key reads and writes *)
KeyState(d, key) == <<d[key], d[CounterKey(key)]>>

(* C6: Key isolation.  The script of a check on one key leaves the          *)
(* persisted state of every other key as it was.                            *)
C6_KeyIsolation ==
    [][\A k1 \in Keys, k2 \in Keys :
          (k1 # k2 /\ Len(hist'[k1]) > Len(hist[k1]))
              => KeyState(db', k2) = KeyState(db, k2)]_vars

(* the last token-bucket execution on a key *)
LastTokenBucket(h) ==
    h[MaxOf({i \in Indices(h) : h[i].alg = AlgorithmTokenBucket /\ h[i].ok})]

(* C7: Token-bucket state invariant.  The persisted tokens of a key are at  *)
(* least 0 and at most the capacity of the check that stored them.          *)
C7_TokensWithinCapacity ==
    \A k \in Keys :
        db[k].type = "hash"
            => /\ 0 <= db[k].tokens
               /\ db[k].tokens <= LastTokenBucket(hist[k]).capacity * TokenOne

(* C8: Every result returned without error, a decision or a fail-open, has  *)
(* remaining >= 0.                                                          *)
C8_RemainingNonNegative ==
    ret.kind \in {"ok", "failopen"} => ret.remaining >= 0

(* the admitted sliding-window requests of h up to execution i whose        *)
(* timestamp lies in [lo, hi]                                               *)
AdmittedIn(h, i, lo, hi) ==
    {j \in 1..i : /\ h[j].alg = AlgorithmSlidingWindow
                  /\ h[j].ok /\ h[j].allowed
                  /\ lo <= h[j].now /\ h[j].now <= hi}

(* C9: Sliding-window log invariant.  After a check at time now with window *)
(* w, the log holds as many entries as requests were admitted with a        *)
(* timestamp in the closed interval [now - w, now].                         *)
C9_LogCountsClosedWindow ==
    \A k \in Keys :
        LET h == hist[k]
        IN  \A i \in Indices(h) :
                (h[i].alg = AlgorithmSlidingWindow /\ h[i].ok)
                    => h[i].count
                         = Cardinality(AdmittedIn(h, i, h[i].now - h[i].par, h[i].now))

(* capacity was exhausted by a burst at one instant on a fresh key of the   *)
(* sliding-window log, and execution j is the first check after it that is  *)
(* not known to be denied: every check between the burst and j was denied   *)
Exhausted(h, j) ==
    /\ j \in Indices(h)
    /\ h[1].alg = AlgorithmSlidingWindow
    /\ h[1].fresh
    /\ OnePolicy(SubSeq(h, 1, j))
    /\ j > h[1].capacity
    /\ \A i \in 1..h[1].capacity : h[i].allowed /\ h[i].at = h[1].at
    /\ \A i \in (h[1].capacity + 1)..(j - 1) : ~h[i].allowed

(* milliseconds from the exhausting burst to the clock reading of check j *)
Later(h, j) == h[j].at - h[1].at

AfterExhaustion(h, i) ==
    /\ i \in Indices(h) /\ i + 1 \in Indices(h)
    /\ h[i].alg = AlgorithmTokenBucket
    /\ OnePolicy(SubSeq(h, i, i + 1))
    /\ h[i].remaining = 0
    /\ h[i + 1].now >= h[i].now

(* floor(t * refillRate) for the t between executions i and i + 1 *)
RefilledWhole(h, i) == ((h[i + 1].now - h[i].now) * h[i].par) \div TokenOne

AdmittedInTrailingWindow(h, T, w) ==
    {i \in Indices(h) : /\ h[i].alg = AlgorithmSlidingWindow
                        /\ h[i].ok /\ h[i].allowed
                        /\ T - w * MsPerSecond < h[i].at /\ h[i].at <= T}

(* C12: No boundary exploit.  For a key checked by sliding window with fixed *)
(* capacity C and window w, at most C requests are admitted with a           *)
(* timestamp in any trailing window of length w, whatever the order in       *)
(* which the store runs the checks.                                          *)
C12_NoBoundaryExploit ==
    \A k \in Keys :
        LET h == hist[k]
        IN  (Len(h) > 0 /\ h[1].alg = AlgorithmSlidingWindow /\ OnePolicy(h))
                => \A j \in Indices(h) :
                       Cardinality(AdmittedInTrailingWindow(h, h[j].at, h[1].par))
                           <= h[1].capacity

(* the token-bucket checks of h allowed with a clock reading in [T1, T2] *)
AllowedBetween(h, T1, T2) ==
    {i \in Indices(h) : /\ h[i].alg = AlgorithmTokenBucket
                        /\ h[i].ok /\ h[i].allowed
                        /\ T1 <= h[i].at /\ h[i].at <= T2}

(* C13: Token-bucket rate bound.  For a key checked with fixed capacity C   *)
(* and refillRate r, the number of checks allowed with a timestamp in any   *)
(* interval of t seconds is at most C + t * r.                              *)
C13_TokenBucketRateBound ==
    \A k \in Keys :
        LET h == hist[k]
        IN  (Len(h) > 0 /\ h[1].alg = AlgorithmTokenBucket /\ OnePolicy(h))
                => \A i \in Indices(h), j \in Indices(h) :
                       h[i].at <= h[j].at
                           => Cardinality(AllowedBetween(h, h[i].at, h[j].at)) * TokenOne
                                <= h[1].capacity * TokenOne + (h[j].at - h[i].at) * h[1].par

(* a step in which HandleCheck or Limiter.Check turned the request down    *)
(* at the entry named, without starting a check                            *)
TurnedDown(entry) ==
    /\ issued' = issued + 1
    /\ ret'.seq = issued'
    /\ ret'.entry = entry

NothingCalled ==
    /\ inflight' = inflight
    /\ hist' = hist
    /\ db' = db
    /\ CountersUnchanged

(* the message of the first rule a request fails, the rules taken in the    *)
(* order key, capacity, algorithm, algorithm parameter; "" when it passes   *)
FirstFailingRule(req) ==
    IF req.key = "" THEN "key is required"
    ELSE IF req.capacity <= 0 THEN "capacity must be positive"
    ELSE IF req.algorithm \notin Algorithms
    THEN "algorithm must be 'token_bucket' or 'sliding_window'"
    ELSE IF req.par > 0 THEN ""
    ELSE IF req.algorithm = AlgorithmTokenBucket
    THEN "refill_rate must be positive for token_bucket"
    ELSE "window_seconds must be positive for sliding_window"

(* C14: Request validation.  A request that HandleCheck turns down at      *)
(* validation fails a rule and gets a 400 response carrying the message of *)
(* the first rule it fails, in the order key, capacity, algorithm,         *)
(* algorithm parameter; no algorithm or store call is made for it.         *)
C14_RequestValidation ==
    [][TurnedDown("HandleCheck")
          => /\ FirstFailingRule(ret'.req) # ""
             /\ ret'.status = 400
             /\ ret'.msg = FirstFailingRule(ret'.req)
             /\ NothingCalled]_vars

(* a request with an unknown algorithm and capacity 0 was answered 400 with *)
(* the capacity message                                                     *)
C14_Witness ==
    /\ ret.entry = "HandleCheck"
    /\ ret.status = 400
    /\ ret.req.key # "" /\ ret.req.capacity = 0 /\ ret.req.algorithm = "bogus"
    /\ ret.msg = "capacity must be positive"

(* the requests C15 names: empty key, unrecognised algorithm, capacity <= 0, *)
(* refillRate <= 0 or windowSeconds <= 0                                     *)
InvalidParameters(req) ==
    \/ req.key = ""
    \/ req.algorithm \notin Algorithms
    \/ req.capacity <= 0
    \/ req.par <= 0

(* the checks whose store call starts in this step *)
Started ==
    {r \in BagToSet(inflight') : r.pc = "sent" /\ CopiesIn(r, inflight') > CopiesIn(r, inflight)}

(* C15: Limiter.Check and the algorithms reject an invalid request with an  *)
(* error before any store call: no check starts a store call with invalid   *)
(* parameters, and a rejection leaves the persisted state as it was.        *)
C15_RejectedBeforeStoreCall ==
    [][/\ \A r \in Started :
             ~InvalidParameters(CheckRequest(r.key, r.alg, r.capacity, r.par))
       /\ TurnedDown("Limiter.Check")
             => /\ InvalidParameters(ret'.req)
                /\ ret'.kind = "error"
                /\ ~ret'.allowed
                /\ NothingCalled]_vars

(* Limiter.Check rejected a sliding-window request with windowSeconds 0 on  *)
(* a key whose token bucket is persisted                                    *)
C15_Witness ==
    /\ ret.entry = "Limiter.Check"
    /\ ret.kind = "error"
    /\ ret.req.algorithm = AlgorithmSlidingWindow
    /\ ret.req.capacity > 0 /\ ret.req.par = 0
    /\ ret.req.key \in Keys
    /\ db[ret.req.key].type = "hash"

(* the tighter of a caller's deadline and a default one *)
Tighter(ctxDeadline, default) ==
    IF ctxDeadline = NoDeadline THEN default ELSE Min(ctxDeadline, default)

(* C16: Bounded store call.  The store round trip of a check runs under a   *)
(* deadline equal to the tighter of the caller's context deadline and the   *)
(* time of the call plus the configured default timeout.                    *)
C16_BoundedStoreCall ==
    \A r \in BagToSet(inflight) : r.deadline = Tighter(r.ctx, r.at + RedisTimeout)

(* the complete effect of a token-bucket step e on key k: tokens, last      *)
(* refill time and expiry all written                                       *)
CompleteTokenBucketStep(d, k, e) ==
    /\ d[k].type = "hash"
    /\ d[k].tokens \div TokenOne = e.remaining
    /\ d[k].last_refill = e.now
    /\ d[k].exp = e.ran + TokenBucketTtl(e.capacity, e.par) * MsPerSecond

(* the complete effect of a sliding-window step e on key k: the log purged  *)
(* and, when admitted, extended, the sequence counter kept with it, and the *)
(* expiry of both written                                                   *)
CompleteSlidingWindowStep(d, k, e) ==
    /\ d[k].type = "zset"
    /\ Cardinality(d[k].members) = e.count
    /\ \A m \in d[k].members : m.score > e.now - e.par \/ m.score < 0
    /\ e.allowed => \E m \in d[k].members : m.score = e.now
    /\ d[k].exp = e.ran + SlidingWindowTtl(e.par) * MsPerSecond
    /\ d[CounterKey(k)].type = "string"
    /\ d[CounterKey(k)].exp = d[k].exp

(* the last execution recorded for a key *)
LastExecution(h) == h[Len(h)]

(* C17: No partial state on client-side failure.  A store step leaves the   *)
(* key either as it was (the script failed at its first command) or with    *)
(* the complete effect of the script, and a check that ends by timeout,     *)
(* cancellation or fail-open changes nothing at the store when it ends.     *)
C17_NoPartialState ==
    [][/\ \A k \in Keys :
             Len(hist'[k]) > Len(hist[k])
                => LET e == LastExecution(hist'[k])
                   IN  IF ~e.ok THEN db' = db
                       ELSE IF e.alg = AlgorithmTokenBucket
                       THEN CompleteTokenBucketStep(db', k, e)
                       ELSE CompleteSlidingWindowStep(db', k, e)
       /\ (Returning /\ ret'.cause \in UnavailableCauses \cup CanceledCauses)
             => db' = db /\ hist' = hist]_vars

(* a sliding-window check whose script had run ended at its client with a   *)
(* timeout, the log it wrote persisted                                      *)
C17_Witness ==
    /\ ret.cause = ErrDeadlineExceeded.name
    /\ ret.alg = AlgorithmSlidingWindow
    /\ ret.idx > 0
    /\ hist[ret.key][ret.idx].ok
    /\ db[ret.key].type = "zset"

----------------------------------------------------------------------------
(* StartupSpec: as Spec, from a start in which the store may have been      *)
(* unreachable: main logs the failure and goes on with a nil client.        *)

StartupInit ==
    /\ clock = 0
    /\ db = [k \in RKeys |-> NoValue]
    /\ inflight = EmptyBag
    /\ hist = [k \in Keys |-> <<>>]
    /\ allowedCnt = [a \in Algorithms |-> 0]
    /\ blockedCnt = [a \in Algorithms |-> 0]
    /\ redisErrors = 0
    /\ ret = NoReturn
    /\ issued = 0
    /\ redis \in {"connected", "nil"}
    /\ store = (IF redis = "nil" THEN "down" ELSE "up")
    /\ probe = NoProbe

StartupNext ==
    \/ Next
    \/ \E key \in KeyInputs, a \in AlgorithmInputs, c \in CapacityInputs :
          \E par \in ParamInputs(a) :
             issued < MaxFaultChecks /\ CheckOnNilClient(key, a, c, par)

StartupSpec == StartupInit /\ [][StartupNext]_vars

(* HealthSpec: checks and health probes on a service whose store can stop   *)
(* being reachable and come back, started with the store reachable or not.  *)
(* While the store is down no script runs and no reply arrives: a store     *)
(* call ends with a refused or reset connection, a broken pipe or a         *)
(* timeout.                                                                 *)

UnreachableErrors ==
    {ErrConnectionRefused, ErrConnectionReset, ErrBrokenPipe, ErrIOTimeout,
     ErrDeadlineExceeded}

HealthNext ==
    \/ \E key \in StoreKeys, a \in Algorithms, c \in ExpiryCapacities :
          \E par \in ClassifyParams(a) :
             issued < MaxFaultChecks /\ Call(key, a, c, par, NoDeadline)
    \/ \E key \in StoreKeys, a \in Algorithms, c \in ExpiryCapacities :
          \E par \in ClassifyParams(a) :
             issued < MaxFaultChecks /\ CheckOnNilClient(key, a, c, par)
    \/ \E r \in BagToSet(inflight) : store = "up" /\ Exec(r)
    \/ \E r \in BagToSet(inflight) : store = "up" /\ Return(r, "pair")
    \/ \E r \in BagToSet(inflight), err \in UnreachableErrors :
          store = "down" /\ EvalFails(r, err)
    \/ redis = "connected" /\ StoreFails
    \/ redis = "connected" /\ StoreRecovers
    \/ HandleHealth

HealthSpec == StartupInit /\ [][HealthNext]_vars

(* ContainsSpec: one call of contains for every pair of strings of at most *)
(* MaxStrLen bytes over a two-byte alphabet.                                *)

MaxStrLen == 3   \* longest string given to contains in ContainsSpec

Alphabet == {"a", "b"}
Strings == UNION {[1..n -> Alphabet] : n \in 0..MaxStrLen}

ContainsInit ==
    /\ clock = 0
    /\ db = [k \in RKeys |-> NoValue]
    /\ inflight = EmptyBag
    /\ hist = [k \in Keys |-> <<>>]
    /\ allowedCnt = [a \in Algorithms |-> 0]
    /\ blockedCnt = [a \in Algorithms |-> 0]
    /\ redisErrors = 0
    /\ ret = NoReturn
    /\ issued = 0
    /\ redis = "connected"
    /\ store = "up"
    /\ \E s \in Strings, substr \in Strings :
          probe = [NoProbe EXCEPT !.pc = "contains", !.s = s, !.substr = substr]

ContainsNext ==
    \/ ContainsEnter
    \/ ContainsSlowStep

ContainsSpec == ContainsInit /\ [][ContainsNext]_vars

(* C18: Store unreachable at startup.  In a service that started without a  *)
(* store connection, every valid check is answered as a normal result with  *)
(* allowed = true, never with a panic or an internal-error response.        *)
C18_FailOpenFromStartup ==
    (redis = "nil" /\ ret.entry = "HandleCheck" /\ FirstFailingRule(ret.req) = ""
        /\ ret.kind # "none")
        => /\ ret.status = 200
           /\ ret.allowed

(* the entries of a log that a check at time now with window w counts *)
InWindow(members, now, w) == {m \in members : m.score > now - w}

(* C19: Lowered capacity is honoured immediately.  A token-bucket check     *)
(* with a capacity C' below the previous one, on a key holding more than C' *)
(* tokens, leaves at most C' - 1 tokens and returns remaining <= C' - 1; a  *)
(* sliding-window check with a capacity not above the in-window entry count *)
(* is rejected with remaining = 0.                                          *)
C19_LoweredCapacity ==
    [][\A k \in Keys :
          (Len(hist'[k]) > Len(hist[k]) /\ LastExecution(hist'[k]).ok)
             => LET e == LastExecution(hist'[k])
                IN  /\ ( /\ e.alg = AlgorithmTokenBucket
                         /\ Len(hist[k]) > 0
                         /\ LastExecution(hist[k]).capacity > e.capacity
                         /\ db[k].type = "hash"
                         /\ db[k].tokens > e.capacity * TokenOne )
                       => /\ db'[k].tokens <= (e.capacity - 1) * TokenOne
                          /\ e.remaining <= e.capacity - 1
                    /\ ( /\ e.alg = AlgorithmSlidingWindow
                         /\ Cardinality(InWindow(db[k].members, e.now, e.par)) >= e.capacity )
                       => /\ ~e.allowed
                          /\ e.remaining = 0]_vars

(* the token count of key k refilled up to the timestamp of execution e:    *)
(* a full bucket for a new key, else the persisted tokens plus the refill   *)
(* for the time since the last refill, at most the capacity                 *)
RefilledTokens(d, k, e) ==
    IF d[k].type = "none" THEN e.capacity * TokenOne
    ELSE Min(e.capacity * TokenOne, d[k].tokens + (e.now - d[k].last_refill) * e.par)

(* C20: Token consumption.  A token-bucket check decided as allowed leaves  *)
(* the refilled token count less exactly 1, a check decided as denied       *)
(* leaves the refilled token count, and both set the last refill time to    *)
(* the check's timestamp.                                                   *)
C20_TokenConsumption ==
    [][\A k \in Keys :
          (Len(hist'[k]) > Len(hist[k]) /\ LastExecution(hist'[k]).ok
             /\ LastExecution(hist'[k]).alg = AlgorithmTokenBucket)
             => LET e == LastExecution(hist'[k])
                IN  /\ e.allowed => db'[k].tokens = RefilledTokens(db, k, e) - TokenOne
                    /\ ~e.allowed => db'[k].tokens = RefilledTokens(db, k, e)
                    /\ db'[k].last_refill = e.now]_vars

(* the third check on a key was denied 0.5 s after the second and left the  *)
(* fraction of a token refilled so far                                      *)
C20_Witness ==
    \E k \in Keys :
        LET h == hist[k]
        IN  /\ Len(h) = 3
            /\ h[3].alg = AlgorithmTokenBucket /\ h[3].ok /\ ~h[3].allowed
            /\ h[3].now > h[2].now
            /\ db[k].type = "hash"
            /\ db[k].last_refill = h[3].now
            /\ 0 < db[k].tokens /\ db[k].tokens < TokenOne

(* the value of the sequence counter of key k, 0 when it does not exist *)
SequenceCounter(d, k) ==
    IF d[CounterKey(k)].type = "string" THEN d[CounterKey(k)].val ELSE 0

(* C21: Sliding-window admission effect.  An allowed check appends exactly  *)
(* one entry, with score = its timestamp, and increments the key's sequence *)
(* counter by one; a denied check appends no entry and leaves the sequence  *)
(* counter as it was; the only entries a check removes are those with a     *)
(* timestamp <= now - windowSeconds.                                        *)
C21_AdmissionEffect ==
    [][\A k \in Keys :
          (Len(hist'[k]) > Len(hist[k]) /\ LastExecution(hist'[k]).ok
             /\ LastExecution(hist'[k]).alg = AlgorithmSlidingWindow)
             => LET e == LastExecution(hist'[k])
                    appended == db'[k].members \ db[k].members
                    purged == db[k].members \ db'[k].members
                IN  /\ \A m \in purged : m.score <= e.now - e.par
                    /\ e.allowed
                         => /\ Cardinality(appended) = 1
                            /\ \A m \in appended : m.score = e.now
                            /\ SequenceCounter(db', k) = SequenceCounter(db, k) + 1
                    /\ ~e.allowed
                         => /\ appended = {}
                            /\ SequenceCounter(db', k) = SequenceCounter(db, k)]_vars

(* a denied check purged an entry: two requests with timestamps one second *)
(* apart admitted under capacity 3, the later one first, then a check with *)
(* capacity 1 and window 1 at the later timestamp                          *)
C21_Witness ==
    \E k \in Keys :
        LET h == hist[k]
        IN  /\ Len(h) = 3
            /\ h[3].alg = AlgorithmSlidingWindow /\ h[3].ok /\ ~h[3].allowed
            /\ h[1].allowed /\ h[2].allowed /\ h[2].now # h[1].now
            /\ h[2].count = 2 /\ h[3].count = 1
            /\ SequenceCounter(db, k) = 2

(* the admitted sliding-window requests of h whose entry no later execution *)
(* removed: none purged it by its timestamp, and none found the key gone    *)
LiveEntries(h) ==
    {i \in Indices(h) :
        /\ h[i].alg = AlgorithmSlidingWindow /\ h[i].ok /\ h[i].allowed
        /\ \A j \in (i + 1)..Len(h) :
              (h[j].alg = AlgorithmSlidingWindow /\ h[j].ok)
                 => /\ ~h[j].fresh
                    /\ h[i].now > h[j].now - h[j].par}

(* C22: Entry uniqueness.  Every admitted request has an entry of its own   *)
(* in the log: after each check the log holds as many entries as requests   *)
(* were admitted and not removed since, so no admission overwrote or merged *)
(* with an existing entry, also with equal timestamps and after the log and *)
(* its sequence counter expired.                                            *)
C22_EntryUniqueness ==
    /\ \A k \in Keys :
          LET h == hist[k]
          IN  \A j \in Indices(h) :
                  (h[j].alg = AlgorithmSlidingWindow /\ h[j].ok)
                      => h[j].count = Cardinality(LiveEntries(SubSeq(h, 1, j)))
    /\ \A k \in Keys :
          \A m1 \in db[k].members, m2 \in db[k].members :
              m1.member = m2.member => m1 = m2

(* after a first admission the log and the sequence counter expired, then   *)
(* two requests with one timestamp were admitted: the counter restarted     *)
(* and the log holds both entries                                           *)
C22_Witness ==
    \E k \in Keys :
        LET h == hist[k]
        IN  /\ Len(h) = 3
            /\ h[1].allowed /\ h[2].allowed /\ h[3].allowed
            /\ h[2].fresh
            /\ h[2].now = h[3].now
            /\ Cardinality(db[k].members) = 2
            /\ SequenceCounter(db, k) = 2

(* ceil(capacity / refillRate * 2): the least whole number of seconds in    *)
(* which the bucket fills twice from empty at refill_rate / RateDen tokens  *)
(* per second                                                               *)
TwiceRefillSeconds(capacity, refill_rate) ==
    CHOOSE n \in 0..(2 * capacity * RateDen) :
        /\ n * refill_rate >= 2 * capacity * RateDen
        /\ (n - 1) * refill_rate < 2 * capacity * RateDen

(* C23: Expiry refresh.  Every check the store executes, allowed or denied, *)
(* leaves the key expiring ceil(capacity / refillRate * 2) seconds later    *)
(* for token bucket and windowSeconds + 10 seconds later for sliding window *)
(* (the log and the sequence counter alike), computed from that check's own *)
(* parameters.                                                              *)
C23_ExpiryRefresh ==
    [][\A k \in Keys :
          (Len(hist'[k]) > Len(hist[k]) /\ LastExecution(hist'[k]).ok)
             => LET e == LastExecution(hist'[k])
                IN  IF e.alg = AlgorithmTokenBucket
                    THEN /\ db'[k].type = "hash"
                         /\ db'[k].exp
                              = clock + TwiceRefillSeconds(e.capacity, e.par) * MsPerSecond
                    ELSE /\ db'[k].type = "zset"
                         /\ db'[k].exp = clock + (e.par + 10) * MsPerSecond
                         /\ db'[CounterKey(k)].type = "string"
                         /\ db'[CounterKey(k)].exp = db'[k].exp]_vars

(* at a refill rate for which capacity / refillRate * 2 is not whole, a     *)
(* check with capacity 2 set the expiry; a later check with capacity 1,     *)
(* denied, set it to 2 seconds (rounded up) after its own execution         *)
C23_Witness ==
    \E k \in Keys :
        LET h == hist[k]
        IN  /\ Len(h) = 3
            /\ h[1].alg = AlgorithmTokenBucket /\ h[1].capacity = 2
            /\ (2 * h[3].capacity * RateDen) % h[3].par # 0
            /\ h[3].ok /\ ~h[3].allowed /\ h[3].capacity = 1
            /\ h[3].ran > h[1].ran
            /\ db[k].exp = h[3].ran + 2 * MsPerSecond

(* the keyspace after the first i executions of h on key k in a store in    *)
(* which no key ever expires                                                *)
RECURSIVE NeverExpiring(_, _, _)
NeverExpiring(h, k, i) ==
    IF i = 0 THEN [x \in RKeys |-> NoValue]
    ELSE TokenBucketScript(NeverExpiring(h, k, i - 1), k,
                           h[i].capacity, h[i].par, h[i].now, h[i].ran).db

(* the reply execution i of h gets in a store in which no key ever expires *)
NeverExpiringReply(h, k, i) ==
    TokenBucketScript(NeverExpiring(h, k, i - 1), k,
                      h[i].capacity, h[i].par, h[i].now, h[i].ran).reply

(* C24: Token-bucket expiry is unobservable.  For a key always checked with *)
(* the same capacity and refillRate, every check gets the allowed and       *)
(* remaining values it would get from a store in which state never expires. *)
C24_ExpiryUnobservable ==
    \A k \in Keys :
        LET h == hist[k]
        IN  (Len(h) > 0 /\ h[1].alg = AlgorithmTokenBucket /\ OnePolicy(h))
                => \A i \in Indices(h) :
                       /\ h[i].allowed = (NeverExpiringReply(h, k, i).allowed = 1)
                       /\ h[i].remaining = NeverExpiringReply(h, k, i).remaining

(* C25: Sliding-window expiry never evicts live data.  For a key always     *)
(* checked with the same windowSeconds, when a check finds the log removed  *)
(* by expiry, no entry the log held has a timestamp that this or a later    *)
(* check counts as inside its window (timestamp > now - windowSeconds).     *)
C25_ExpiryKeepsLiveData ==
    \A k \in Keys :
        LET h == hist[k]
        IN  (Len(h) > 0 /\ h[1].alg = AlgorithmSlidingWindow /\ OnePolicy(h))
                => \A j \in Indices(h) :
                       (j > 1 /\ h[j].fresh)
                          => \A i \in LiveEntries(SubSeq(h, 1, j - 1)), l \in j..Len(h) :
                                 ~(h[i].now > h[l].now - h[l].par)

(* the token count persisted by a single check with the parameters of       *)
(* execution e on a key holding what execution p left                       *)
SingleCheckTokens(k, p, e) ==
    TokenBucketLua([db EXCEPT ![k] = HashValue(p.tokens, p.now, -1)], k,
                   e.capacity, LuaRate(e.par), e.now, e.ran).db[k].tokens

(* C26: Refill is never double-counted or lost.  For token bucket with      *)
(* non-decreasing timestamps, a check with the timestamp of the check       *)
(* before it adds no refill (it leaves the tokens it found, less 1 when     *)
(* allowed), and after a check denied at t1 and a check at t2 the key holds *)
(* the tokens that a single check at t2 would have left.                    *)
C26_RefillNotDoubleCountedOrLost ==
    \A k \in Keys :
        LET h == hist[k]
        IN  \A i \in Indices(h) :
                i < Len(h)
                   => /\ h[i + 1].now = h[i].now
                         => h[i + 1].tokens
                              = IF h[i + 1].allowed THEN FSub(h[i].tokens, FFromInt(1))
                                ELSE h[i].tokens
                      /\ (i > 1 /\ ~h[i].allowed)
                         => h[i + 1].tokens = SingleCheckTokens(k, h[i - 1], h[i + 1])

(* the check h[i] emptied the bucket and every check after it up to h[j]    *)
(* (not included) was denied, all under one refill rate and with            *)
(* timestamps that never decrease                                           *)
DeniedSinceExhaustion(h, i, j) ==
    /\ i < j
    /\ h[i].alg = AlgorithmTokenBucket /\ h[i].ok /\ h[i].allowed
    /\ FIsZero(h[i].tokens)
    /\ \A m \in (i + 1)..j :
          /\ h[m].alg = AlgorithmTokenBucket /\ h[m].ok
          /\ h[m].par = h[i].par /\ h[m].capacity = h[i].capacity
          /\ h[m].now >= h[m - 1].now
          /\ m < j => ~h[m].allowed

(* C27: a token-bucket key that was denied is allowed again once the time   *)
(* since the check that emptied the bucket reaches 1 / refill_rate seconds, *)
(* however many denied checks were made in between: denied checks do not    *)
(* postpone the recovery                                                    *)
C27_RecoveryNotPostponed ==
    \A k \in Keys :
       LET h == hist[k]
       IN  \A i \in Indices(h), j \in Indices(h) :
              ( /\ DeniedSinceExhaustion(h, i, j)
                /\ (h[j].now - h[i].now) * h[j].par >= MsPerSecond * RateDecimals )
              => h[j].allowed

(* a step in which a check ends: it returns from its store call, or it is   *)
(* turned down before any store call                                        *)
CheckEnds == Returning \/ ret' # ret

(* the allowed and blocked counters with one more under tag alg *)
OneMore(cnt, alg) == [cnt EXCEPT ![alg] = @ + 1]

(* C28: Counter accounting.  A check that gets a well-formed decision from  *)
(* the store adds one to exactly one of the allowed / blocked counters,     *)
(* under its own algorithm's tag; a check that fails open adds one to the   *)
(* store-error counter only; a check that ends in an error changes none of  *)
(* the three.                                                               *)
C28_CounterAccounting ==
    [][CheckEnds
          => /\ (Returning /\ ret'.cause = "pair") => ret'.kind = "ok"
             /\ ret'.kind = "ok"
                => /\ ret'.allowed
                      => allowedCnt' = OneMore(allowedCnt, ret'.alg)
                         /\ blockedCnt' = blockedCnt
                   /\ ~ret'.allowed
                      => blockedCnt' = OneMore(blockedCnt, ret'.alg)
                         /\ allowedCnt' = allowedCnt
                   /\ redisErrors' = redisErrors
             /\ ret'.kind = "failopen"
                => /\ redisErrors' = redisErrors + 1
                   /\ allowedCnt' = allowedCnt
                   /\ blockedCnt' = blockedCnt
             /\ ret'.kind = "error" => CountersUnchanged]_vars

(* a sliding-window check was denied by the store after another one was     *)
(* allowed, and each was counted once under the sliding-window tag          *)
C28_Witness ==
    /\ ret.kind = "ok" /\ ret.alg = AlgorithmSlidingWindow /\ ~ret.allowed
    /\ ret.cause = "pair"
    /\ allowedCnt = [a \in Algorithms |-> IF a = AlgorithmSlidingWindow THEN 1 ELSE 0]
    /\ blockedCnt = [a \in Algorithms |-> IF a = AlgorithmSlidingWindow THEN 1 ELSE 0]
    /\ redisErrors = 0

(* the key of check r holds what the other algorithm persists: a log or a   *)
(* sequence counter for a token-bucket check, a bucket for a sliding-window *)
(* check                                                                    *)
HoldsOtherAlgorithm(d, r) ==
    IF r.alg = AlgorithmTokenBucket
    THEN d[r.key].type \in {"zset", "string"}
    ELSE d[r.key].type = "hash"

(* the names of the errors a store call can fail with before its reply is   *)
(* read                                                                     *)
TransportCauses == {e.name : e \in TransportErrors}

(* C29: One key, two algorithms.  A check with one algorithm on a key that  *)
(* holds the other algorithm's persisted state leaves the keyspace as it    *)
(* was, and when its reply is read the check returns an error: it does not  *)
(* fail open, it returns no decision and no counter changes.                *)
C29_OneKeyTwoAlgorithms ==
    [][/\ \A r \in BagToSet(inflight) :
             (Exec(r) /\ HoldsOtherAlgorithm(db, r))
                => /\ db' = db
                   /\ ~LastExecution(hist'[r.key]).ok
       /\ ( /\ Returning
            /\ ret'.idx > 0
            /\ ~hist[ret'.key][ret'.idx].ok
            /\ ret'.cause \notin TransportCauses )
          => /\ ret'.kind = "error"
             /\ ~ret'.allowed
             /\ ret'.status = 500
             /\ CountersUnchanged]_vars

(* a sliding-window check on a key holding a token bucket returned an       *)
(* error and the bucket is still there                                      *)
C29_Witness ==
    \E k \in Keys :
       /\ Len(hist[k]) = 2
       /\ hist[k][1].alg = AlgorithmTokenBucket /\ hist[k][1].ok
       /\ hist[k][2].alg = AlgorithmSlidingWindow /\ ~hist[k][2].ok
       /\ db[k].type = "hash"
       /\ ret.key = k /\ ret.idx = 2 /\ ret.cause = ErrWrongType.name
       /\ ret.kind = "error"

(* the texts that mark a network error *)
NetworkTexts == {StrConnectionRefused, StrConnectionReset, StrBrokenPipe, StrIOTimeout}

(* text t occurs in message msg *)
Occurs(t, msg) ==
    \E i \in 1..(Len(msg) - Len(t) + 1) : SubSeq(msg, i, i + Len(t) - 1) = t

(* the class the precedence rule gives err: a deadline-exceeded in the      *)
(* chain first, then an explicit cancellation, then the message             *)
Unavailable(err) ==
    IF err.deadline THEN TRUE
    ELSE IF err.canceled THEN FALSE
    ELSE \E t \in NetworkTexts : Occurs(t, err.msg)

(* the errors a store call is made to fail with, each under its own name *)
ClassifiedErrors == ClassifyErrors \cup TransportErrors

(* C30: Failure classification.  Every error of a store call is in exactly  *)
(* one class, by the precedence deadline-exceeded, cancellation, message:   *)
(* an Unavailable error comes back as a FailOpenError holding it and the    *)
(* check fails open; any other error comes back unchanged and the check     *)
(* returns an error.                                                        *)
C30_FailureClassification ==
    [][(Returning /\ ret'.cause \in {e.name : e \in ClassifiedErrors})
          => LET err == CHOOSE e \in ClassifiedErrors : e.name = ret'.cause
             IN  IF Unavailable(err)
                 THEN ret'.evalErr = FailOpenError(err) /\ ret'.kind = "failopen"
                 ELSE ret'.evalErr = err /\ ret'.kind = "error"]_vars

(* an error with both a deadline-exceeded and a cancellation in its chain   *)
(* and no network text in its message was classified Unavailable            *)
C30_Witness ==
    /\ ret.kind = "failopen"
    /\ ret.evalErr.Cause.deadline
    /\ ret.evalErr.Cause.canceled
    /\ ~\E t \in NetworkTexts : Occurs(t, ret.evalErr.Cause.msg)

(* the store call of the check that returns ended in an error that is not   *)
(* Unavailable: a cancellation, a script error, a closed connection, or a   *)
(* reply that is not a pair of integers                                     *)
OtherCauses ==
    CanceledCauses \cup MalformedCauses \cup {ErrWrongType.name, ErrEOF.name}

(* C31: Outcomes stay distinguishable at the HTTP boundary.  A validation   *)
(* failure is answered 400 with its message; an Other error from the        *)
(* limiter is answered 500 "internal server error" in a body without an     *)
(* allowed field; an answer is 200 exactly for a store decision or a        *)
(* fail-open, and its body is {allowed, remaining}.                         *)
C31_OutcomesDistinguishable ==
    [][(CheckEnds /\ ret'.entry = "HandleCheck")
          => /\ FirstFailingRule(ret'.req) # ""
                => /\ ret'.status = 400
                   /\ ret'.body = [error |-> FirstFailingRule(ret'.req)]
             /\ (ret'.cause \in OtherCauses \/ ret'.kind = "error")
                => /\ ret'.status # 200
                   /\ "allowed" \notin DOMAIN ret'.body
             /\ (ret'.cause \in OtherCauses
                 \/ (ret'.kind = "error" /\ FirstFailingRule(ret'.req) = ""))
                => /\ ret'.status = 500
                   /\ ret'.body = [error |-> "internal server error"]
             /\ ret'.status = 200 <=> ret'.kind \in {"ok", "failopen"}
             /\ ret'.status = 200
                => /\ DOMAIN ret'.body = {"allowed", "remaining"}
                   /\ ret'.body.allowed = ret'.allowed
                   /\ ret'.body.remaining = ret'.remaining
                   /\ ret'.cause \in {"pair"} \cup UnavailableCauses]_vars

(* a check cancelled by its caller was answered 500 with the error body     *)
(* after another check on the same store was answered 200                   *)
C31_Witness ==
    /\ ret.entry = "HandleCheck"
    /\ ret.cause = ErrCanceled.name
    /\ ret.status = 500
    /\ ret.body = [error |-> "internal server error"]
    /\ allowedCnt[AlgorithmTokenBucket] = 1

(* a step in which the health operation answers *)
HealthAnswers == ret'.entry = "HandleHealth" /\ ret' # ret

(* a step in which a check on a valid request is answered *)
ValidCheckAnswered ==
    /\ ret'.entry = "HandleCheck"
    /\ Returning \/ ret' # ret
    /\ FirstFailingRule(ret'.req) = ""

(* C32: Health probe versus fail-open.  While the store is unreachable the  *)
(* health operation answers 503 unhealthy with "redis connection failed"    *)
(* and a check is answered allowed = true, remaining = 0; the health        *)
(* operation answers healthy exactly when the store can be reached.         *)
C32_HealthVersusFailOpen ==
    [][/\ (HealthAnswers /\ store = "down")
          => /\ ret'.status = 503
             /\ ret'.body = [status |-> "unhealthy", error |-> "redis connection failed"]
       /\ (ValidCheckAnswered /\ store = "down")
          => /\ ret'.status = 200
             /\ ret'.body = [allowed |-> TRUE, remaining |-> 0]
       /\ HealthAnswers
          => (ret'.status = 200 /\ ret'.body = [status |-> "healthy"]) <=> store = "up"]_vars

----------------------------------------------------------------------------
(* C33: script file and inline fallback *)

ScriptCapacities == {1, 2}
ScriptRates == {1, RateDen, RateDen + 1}
ScriptWindows == {1, 2}
ScriptTimesMillis == {0, 250, 500, 2500}
ScriptTimesSeconds == {0, 1, 2, 3}

(* C33: In every reachable keyspace, for every key, capacity, refill rate  *)
(* or window and client timestamp, the inline fallback script of an        *)
(* algorithm and its script file leave the same keyspace (values and       *)
(* expiries) and return the same reply.                                    *)
C33_InlineScriptsAgree ==
    \A key \in Keys, capacity \in ScriptCapacities :
       /\ \A refill_rate \in ScriptRates, now \in ScriptTimesMillis :
             InlineTokenBucketScript(db, key, capacity, refill_rate, now, clock)
                = TokenBucketScript(db, key, capacity, refill_rate, now, clock)
       /\ \A window \in ScriptWindows, now \in ScriptTimesSeconds :
             InlineSlidingWindowScript(db, key, capacity, window, now, clock)
                = SlidingWindowScript(db, key, capacity, window, now, clock)

(* a log holding an entry, on which the inline script purges, denies and   *)
(* extends the expiry at one timestamp and admits at another *)
C33_Witness ==
    /\ db["a"].type = "zset"
    /\ clock > 0
    /\ InlineSlidingWindowScript(db, "a", 1, 2, 0, clock).reply = ScriptReply(0, 0)
    /\ InlineSlidingWindowScript(db, "a", 1, 2, 0, clock).db # db
    /\ InlineSlidingWindowScript(db, "a", 1, 1, 3, clock).reply = ScriptReply(1, 0)

----------------------------------------------------------------------------
(* C34: contains *)

(* C34: For all strings s and substr of the bounded alphabet and length,   *)
(* the empty string and s = substr included, contains(s, substr) returns   *)
(* true exactly when substr occurs in s as a contiguous substring, and no  *)
(* slice expression of containsSlow is out of the range of s.              *)
C34_ContainsCorrect ==
    /\ probe.pc # "panic"
    /\ (probe.pc = "containsSlow" /\ containsSlowContinue(probe.s, probe.substr, probe.i))
          => SliceInRange(probe.s, probe.i, probe.i + Len(probe.substr))
    /\ probe.pc = "returned"
          => /\ probe.result <=> Occurs(probe.substr, probe.s)
             /\ probe.result <=> contains(probe.s, probe.substr)

(* containsSlow found a non-empty substr at the last index it tries, where *)
(* the slice ends with s *)
C34_Witness ==
    /\ probe.pc = "returned"
    /\ probe.result
    /\ probe.substr # <<>>
    /\ probe.i > 0
    /\ probe.i + Len(probe.substr) = Len(probe.s)

====
